---- MODULE Spec2Model ----
(***************************************************************************)
(* Model of the AIDL language core (aidl_language.cpp): the annotation     *)
(* schema registry, annotation instances, type specifiers, member          *)
(* declarations and the CheckValid of each declaration kind.               *)
(*                                                                         *)
(* Every CheckValid of the source is an operator that returns the boolean  *)
(* result together with the diagnostics emitted, in emission order.  A     *)
(* diagnostic is a record [id, at, what, cites]: `id` names the AIDL_ERROR *)
(* or advisory call site, `at` is the location of the node handed to it,   *)
(* `what` the name the message prints and `cites` the other location the   *)
(* message prints (0 when it prints none).                                 *)
(***************************************************************************)
EXTENDS Integers, Sequences, FiniteSets, TLC

VARIABLES
  annotation,        \* the AidlAnnotation instance built by Parse (or NoAnnotation)
  annotationResult,  \* outcome of the last AidlAnnotation::CheckValid on it
  typeSpec,          \* an AidlTypeSpecifier under construction / validation
  typeResult,        \* outcome of the last AidlTypeSpecifier::CheckValid on it
  enumDecl,          \* an AidlEnumDeclaration
  enumAutofill,      \* outcome of AidlEnumDeclaration::Autofill on it
  enumResult,        \* outcome of the CheckValid calls since it last changed
  unionDecl,         \* an AidlUnionDecl
  unionResult,       \* outcome of the last AidlUnionDecl::CheckValid on it
  iface,             \* an AidlInterface
  ifaceResult,       \* outcome of the last AidlInterface::CheckValid on it
  typenames,         \* the type-name table: lookup name -> canonical name ("" = unknown)
  resolving,         \* the AidlTypeSpecifier handed to Resolve
  resolveResult,     \* the Resolve calls made on it: count, last return, aborted
  annotated,         \* an AidlAnnotatable node: its annotations and supported kinds
  annotatedResult,   \* outcome of the last AidlAnnotatable::CheckValid on it
  fetched,           \* the last GetAnnotation call on it: kind, aborted, annotation found
  imports,           \* the import list of an AidlDocument
  resolveNameResult, \* the last AidlDocument::ResolveName call: name, value, errors
  constant,          \* an AidlConstantDeclaration
  constantResult,    \* outcome of the last AidlConstantDeclaration::CheckValid on it
  definedType,       \* a defined type of any kind
  definedTypeResult, \* outcome of the last CheckValid on it
  document,          \* an AidlDocument: its defined types in order
  documentResult,    \* outcome of the last AidlDocument::CheckValid on it
  variable,          \* an AidlVariableDeclaration
  variableResult     \* outcome of the last AidlVariableDeclaration::CheckValid on it

annotationVars == <<annotation, annotationResult>>
typeVars       == <<typeSpec, typeResult>>
enumVars       == <<enumDecl, enumAutofill, enumResult>>
unionVars      == <<unionDecl, unionResult>>
ifaceVars      == <<iface, ifaceResult>>
resolveVars    == <<typenames, resolving, resolveResult>>
annotatedVars  == <<annotated, annotatedResult, fetched>>
importVars     == <<imports, resolveNameResult>>
constantVars   == <<constant, constantResult>>
declVars       == <<definedType, definedTypeResult>>
documentVars   == <<document, documentResult>>
memberVars     == <<variable, variableResult>>
\* the trees of the declaration kinds, and the trees of the other operations
kindVars  == <<annotationVars, typeVars, enumVars, unionVars, ifaceVars>>
otherVars == <<resolveVars, annotatedVars, importVars, constantVars, declVars, documentVars,
               memberVars>>
vars == <<kindVars, otherVars>>

(***************************************************************************)
(* Bounds of the model.                                                    *)
(***************************************************************************)
MaxParams == 2       \* parameters supplied to one annotation instance
MaxTypeParams == 3   \* type parameters of one generic type specifier
MaxEnumerators == 3  \* enumerators of one enum declaration
MaxFields == 2       \* fields of one union
MaxMethods == 3      \* methods of one interface
MaxChecks == 2       \* CheckValid calls recorded on one tree

(***************************************************************************)
(* Results and diagnostics.                                                *)
(***************************************************************************)
DiagCiting(id, at, what, cites) == [id |-> id, at |-> at, what |-> what, cites |-> cites]
Diag(id, at, what) == DiagCiting(id, at, what, 0)

\* `calls` counts the validation calls made on the current tree.
\* `died` is TRUE when the call never returned: the process was killed inside it.
NoResult == [calls |-> 0, ok |-> FALSE, diags |-> << >>, died |-> FALSE]
Outcome(ok, diags) == [ok |-> ok, diags |-> diags, died |-> FALSE]

\* The process is killed by SIGSEGV: nothing is returned and nothing more is reported.
Sigsegv == [ok |-> FALSE, diags |-> << >>, died |-> TRUE]

Recorded(prev, out) ==
  [calls |-> prev.calls + 1, ok |-> out.ok, diags |-> out.diags, died |-> out.died]

Range(s) == {s[i] : i \in DOMAIN s}

\* Indices of s whose element satisfies Test, in order.
FirstIndex(s, Test(_)) ==
  IF \E i \in DOMAIN s : Test(s[i])
    THEN CHOOSE i \in DOMAIN s : Test(s[i]) /\ \A j \in 1..(i - 1) : ~Test(s[j])
    ELSE 0

RECURSIVE Flatten(_)
Flatten(ss) == IF ss = << >> THEN << >> ELSE Head(ss) \o Flatten(Tail(ss))

RECURSIVE JoinStr(_, _)
JoinStr(ss, sep) ==
  IF ss = << >> THEN ""
  ELSE IF Len(ss) = 1 THEN ss[1]
  ELSE ss[1] \o sep \o JoinStr(Tail(ss), sep)

\* A step that fails exactly when it emits a diagnostic.
Failing(diags) == Outcome(diags = << >>, diags)

\* a report that fails the validation like an AIDL_ERROR
Advisory_Fatal(diags) == Outcome(diags = << >>, diags)

\* diag.Report(location, id) << ...: the diagnostics are reported and the
\* function goes on, its result untouched.
Advisory(diags) == Outcome(TRUE, diags)

\* `if (!first) return false;` followed by `rest`: rest runs only after first passed.
AndThen(first, rest) ==
  IF first.ok
    THEN [ok |-> rest.ok, diags |-> first.diags \o rest.diags, died |-> rest.died]
    ELSE first

\* valid &= a; valid &= b: both run, unless the process died in a.
Both(a, b) ==
  IF a.died THEN a
  ELSE [ok |-> a.ok /\ b.ok, diags |-> a.diags \o b.diags, died |-> b.died]

\* A loop whose body can `return false`: the iterations up to the first failing one.
UntilFailure(outs) ==
  LET bad == FirstIndex(outs, LAMBDA o : ~o.ok)
      ran == IF bad # 0 THEN bad ELSE Len(outs)
  IN [ok |-> bad = 0,
      diags |-> Flatten([i \in 1..ran |-> outs[i].diags]),
      died |-> bad # 0 /\ outs[bad].died]

\* A loop that only accumulates success: every iteration runs, up to one the
\* process dies in.
Every(outs) ==
  LET dead == FirstIndex(outs, LAMBDA o : o.died)
      ran == IF dead # 0 THEN dead ELSE Len(outs)
  IN [ok |-> \A i \in 1..ran : outs[i].ok,
      diags |-> Flatten([i \in 1..ran |-> outs[i].diags]),
      died |-> dead # 0]

(***************************************************************************)
(* The type-name table (AidlTypenames, aidl_typenames.cpp) is an external  *)
(* collaborator of this file.  It is modelled for one fixed compilation    *)
(* unit that declares one type of every kind.                              *)
(***************************************************************************)
PrimitiveTypes == {"void", "boolean", "byte", "char", "int", "long", "float", "double"}

BuiltinTypes ==
  PrimitiveTypes \cup {"String", "List", "Map", "IBinder", "FileDescriptor",
                       "CharSequence", "ParcelFileDescriptor", "ParcelableHolder"}

\* name -> declaration kind of the user-defined types of the compilation unit
DefinedTypes ==
  [n \in {"MyParcelable", "MyUnion", "MyEnum", "IMyInterface", "MyGeneric"} |->
     CASE n = "MyParcelable" -> "structured_parcelable"
       [] n = "MyUnion"      -> "union"
       [] n = "MyEnum"       -> "enum"
       [] n = "IMyInterface" -> "interface"
       [] n = "MyGeneric"    -> "structured_parcelable"]

\* number of type parameters a user-defined type declares (MyGeneric<T>)
DeclaredTypeParams(n) == IF n = "MyGeneric" THEN 1 ELSE 0

IsPrimitiveTypename(n) == n \in PrimitiveTypes
IsBuiltinTypename(n) == n \in BuiltinTypes
TryGetDefinedType(n) == IF n \in DOMAIN DefinedTypes THEN DefinedTypes[n] ELSE "none"
GetEnumDeclaration(t) == TryGetDefinedType(t.name) = "enum"
GetInterface(t) == TryGetDefinedType(t.name) = "interface"
IsParcelableKind(kind) == kind \in {"parcelable", "structured_parcelable", "union"}

(***************************************************************************)
(* Type specifiers (the data; CheckValid follows the annotation framework) *)
(***************************************************************************)
\* AidlTypeSpecifier::AidlTypeSpecifier: type_params == nullptr is generic = FALSE
AidlTypeSpecifier(name, is_array, generic, params, annotations) ==
  [name |-> name, is_array |-> is_array, generic |-> generic,
   params |-> params, annotations |-> annotations]

PlainType(name) == AidlTypeSpecifier(name, FALSE, FALSE, << >>, << >>)

\* no specifier: a unique_ptr<AidlTypeSpecifier> that is still nullptr
NoType == AidlTypeSpecifier("", FALSE, FALSE, << >>, << >>)

\* static const AidlTypeSpecifier kStringType, kIntType, kLongType, kBooleanType
kStringType == PlainType("String")
kIntType == PlainType("int")
kLongType == PlainType("long")
kBooleanType == PlainType("boolean")

IsGeneric(t) == t.generic
IsArray(t) == t.is_array

RECURSIVE TypeSignature(_)
TypeSignature(t) ==
  LET base == IF IsGeneric(t)
                THEN t.name \o "<"
                     \o JoinStr([i \in DOMAIN t.params |-> TypeSignature(t.params[i])], ",")
                     \o ">"
                ELSE t.name
  IN IF IsArray(t) THEN base \o "[]" ELSE base

(***************************************************************************)
(* Constant values (AidlConstantValue, aidl_constant_value.cpp) are an     *)
(* external collaborator: an expression tree with CheckValid, ValueString  *)
(* and a visitor hook.  `env` is the enumerator list a reference is        *)
(* resolved against (empty outside an enum).                               *)
(***************************************************************************)
NullValue == [k |-> "null"]
StringValue(s) == [k |-> "string", s |-> s]
Integral(n) == [k |-> "integral", n |-> n]
BooleanValue(b) == [k |-> "boolean", b |-> b]
Malformed == [k |-> "malformed"]
ArrayValue == [k |-> "array"]
AidlConstantReference(type, field) == [k |-> "ref", type |-> type, field |-> field]
AidlBinaryConstExpression(left, op, right) ==
  [k |-> "binary", left |-> left, op |-> op, right |-> right]

NoNumber == [ok |-> FALSE, n |-> 0]

RECURSIVE Evaluate(_, _)
Evaluate(v, env) ==
  CASE v.k = "integral" -> [ok |-> TRUE, n |-> v.n]
    [] v.k = "ref" ->
         LET i == IF \E j \in DOMAIN env : env[j].name = v.field
                    THEN CHOOSE j \in DOMAIN env :
                           env[j].name = v.field /\ \A h \in 1..(j - 1) : env[h].name # v.field
                    ELSE 0
         IN IF i = 0 \/ v.type # "" THEN NoNumber
            ELSE IF env[i].value.k = "null" THEN NoNumber
            ELSE Evaluate(env[i].value, env)
    [] v.k = "binary" ->
         LET l == Evaluate(v.left, env)
             r == Evaluate(v.right, env)
         IN IF l.ok /\ r.ok /\ v.op = "+" THEN [ok |-> TRUE, n |-> l.n + r.n] ELSE NoNumber
    [] OTHER -> NoNumber

\* AidlConstantValue::CheckValid
RECURSIVE ConstantCheckValid(_, _)
ConstantCheckValid(v, env) ==
  CASE v.k \in {"string", "integral", "boolean", "array"} -> TRUE
    [] v.k = "ref" -> v.type # "" \/ Evaluate(v, env).ok
    [] v.k = "binary" -> ConstantCheckValid(v.left, env) /\ ConstantCheckValid(v.right, env)
    [] OTHER -> FALSE

\* AidlConstantValue::ValueString(type, decorator): "" is the failure sentinel.
ConstantValueString(v, type, env) ==
  IF ~ConstantCheckValid(v, env) THEN ""
  ELSE IF v.k = "array" THEN (IF IsArray(type) THEN "{}" ELSE "")
  ELSE IF IsArray(type) THEN ""
  ELSE CASE v.k = "string" ->
              IF type.name = "String" THEN "\"" \o v.s \o "\"" ELSE ""
         [] v.k = "boolean" ->
              IF type.name = "boolean" THEN (IF v.b THEN "true" ELSE "false") ELSE ""
         [] v.k = "ref" /\ v.type # "" ->
              \* AidlConstantValueDecorator: an enum-typed constant renders as Enum.MEMBER
              IF type.name = v.type /\ GetEnumDeclaration(type)
                THEN type.name \o "." \o v.field ELSE ""
         [] OTHER ->
              LET e == Evaluate(v, env)
              IN IF ~e.ok THEN ""
                 ELSE IF type.name = "byte" /\ e.n >= -128 /\ e.n <= 127 THEN ToString(e.n)
                 ELSE IF type.name = "int" THEN ToString(e.n)
                 ELSE IF type.name = "long" THEN ToString(e.n) \o "L"
                 ELSE ""

\* AidlAnnotation::ParamValue<std::string>: the string literal without its quotes
ParamValueString(v) == v.s

\* The visitor walk of AidlConstantValue::Accept: the first reference of the tree.
RECURSIVE FirstReference(_)
FirstReference(v) ==
  CASE v.k = "ref" -> [found |-> TRUE, field |-> v.field]
    [] v.k = "binary" ->
         LET l == FirstReference(v.left)
         IN IF l.found THEN l ELSE FirstReference(v.right)
    [] OTHER -> [found |-> FALSE, field |-> ""]

(***************************************************************************)
(* Annotation framework                                                    *)
(***************************************************************************)
\* a registry entry that is repeatable whatever its initializer says
Schema_Repeatable(type, name, supported_parameters, repeatable, required_parameters) ==
  [type |-> type, name |-> name, supported_parameters |-> supported_parameters,
   repeatable |-> TRUE, required_parameters |-> required_parameters]

\* AidlAnnotation::Schema, as the initializers of kSchemas fill it
Schema(type, name, supported_parameters, repeatable, required_parameters) ==
  [type |-> type, name |-> name, supported_parameters |-> supported_parameters,
   repeatable |-> repeatable, required_parameters |-> required_parameters]

NoParameters == << >>

\* AidlAnnotation::AllSchemas
AllSchemas == <<
  Schema("NULLABLE", "nullable", NoParameters, FALSE, {}),
  Schema("UTF8_IN_CPP", "utf8InCpp", NoParameters, FALSE, {}),
  Schema("SENSITIVE_DATA", "SensitiveData", NoParameters, FALSE, {}),
  Schema("VINTF_STABILITY", "VintfStability", NoParameters, FALSE, {}),
  Schema("UNSUPPORTED_APP_USAGE", "UnsupportedAppUsage",
         [n \in {"expectedSignature", "implicitMember", "maxTargetSdk",
                 "publicAlternatives", "trackingBug"} |->
            CASE n = "maxTargetSdk" -> kIntType
              [] n = "trackingBug" -> kLongType
              [] OTHER -> kStringType],
         FALSE, {}),
  Schema("JAVA_STABLE_PARCELABLE", "JavaOnlyStableParcelable", NoParameters, FALSE, {}),
  Schema("HIDE", "Hide", NoParameters, FALSE, {}),
  Schema("BACKING", "Backing", [n \in {"type"} |-> kStringType], FALSE, {"type"}),
  Schema("JAVA_PASSTHROUGH", "JavaPassthrough", [n \in {"annotation"} |-> kStringType],
         TRUE, {"annotation"}),
  Schema("JAVA_DERIVE", "JavaDerive", [n \in {"toString", "equals"} |-> kBooleanType],
         FALSE, {}),
  Schema("JAVA_ONLY_IMMUTABLE", "JavaOnlyImmutable", NoParameters, FALSE, {}),
  Schema("FIXED_SIZE", "FixedSize", NoParameters, FALSE, {}),
  Schema("DESCRIPTOR", "Descriptor", [n \in {"value"} |-> kStringType], FALSE, {"value"}),
  Schema("RUST_DERIVE", "RustDerive",
         [n \in {"Copy", "Clone", "PartialOrd", "Ord", "PartialEq", "Eq", "Hash"} |->
            kBooleanType],
         FALSE, {}) >>

SchemaNames == {AllSchemas[i].name : i \in DOMAIN AllSchemas}

\* std::map / std::set iterate their string keys in byte order; the order of the
\* names the model uses.
KeyOrder ==
  <<"Clone", "Copy", "Eq", "Hash", "Ord", "PartialEq", "PartialOrd", "annotation",
    "equals", "expectedSignature", "implicitMember", "maxTargetSdk", "publicAlternatives",
    "toString", "trackingBug", "type", "unknown", "value">>

SortedKeys(S) == SelectSeq(KeyOrder, LAMBDA n : n \in S)

NoAnnotation == [schema |-> Schema("", "", NoParameters, FALSE, {}),
                 parameters |-> NoParameters, loc |-> 0]

\* AidlAnnotation::AidlAnnotation
AidlAnnotation(location, schema, parameters) ==
  [schema |-> schema, parameters |-> parameters, loc |-> location]

\* AidlAnnotation::Parse: the schema bound is the last one of the registry whose
\* name matches; no match is an error and no instance.
AnnotationParse(location, name, parameter_list) ==
  LET hits == {i \in DOMAIN AllSchemas : AllSchemas[i].name = name}
  IN IF hits = {} THEN NoAnnotation
     ELSE AidlAnnotation(location,
                         AllSchemas[CHOOSE i \in hits : \A j \in hits : j <= i],
                         parameter_list)

\* AidlAnnotation::TypeToString
TypeToString(type) ==
  AllSchemas[CHOOSE i \in DOMAIN AllSchemas :
               AllSchemas[i].type = type
               /\ \A j \in 1..(i - 1) : AllSchemas[j].type # type].name

\* ConstReferenceFinder: `found` is a member without an initializer and the finder
\* is default-initialized, so its first value is indeterminate: null, a pointer
\* into readable memory, or a pointer into unmapped memory.
FinderFound == {"null", "readable", "unmapped"}

\* The finder after param->Accept(finder), `initial` being what `found` held at
\* construction.  From a non-null `found` Visit never stores a reference, and
\* CheckValid takes the stale pointer for a hit; `mapped` tells whether that
\* pointer can be dereferenced.
ConstReferenceFinder(v, initial) ==
  IF initial = "null"
    THEN [found |-> FirstReference(v).found, field |-> FirstReference(v).field,
          mapped |-> TRUE]
    ELSE [found |-> TRUE, field |-> "?", mapped |-> initial = "readable"]

\* One iteration of the parameter loop of AidlAnnotation::CheckValid: it fails with
\* one diagnostic, passes, or the process dies reading through finder.found.
CheckParameter(a, param_name, initial) ==
  LET param == a.parameters[param_name]
      finder == ConstReferenceFinder(param, initial)
  IN IF param_name \notin DOMAIN a.schema.supported_parameters
       THEN Failing(<<Diag("unsupported_parameter", a.loc, param_name)>>)
     ELSE IF finder.found /\ ~finder.mapped
       THEN Sigsegv
     ELSE IF finder.found
       THEN Failing(<<Diag("reference_not_allowed", 0, finder.field)>>)
     ELSE IF ~ConstantCheckValid(param, << >>)
       THEN Failing(<<Diag("invalid_parameter_value", a.loc, param_name)>>)
     ELSE IF ConstantValueString(param, a.schema.supported_parameters[param_name], << >>) = ""
       THEN Failing(<<Diag("invalid_parameter_value", a.loc, param_name)>>)
     ELSE Failing(<< >>)

\* The ways the finders named by `keys` can start: each way is the set of
\* <<key, initial>> of the finders whose `found` starts non-null.
Indeterminate(keys) ==
  {{<<k, f[k]>> : k \in {x \in keys : f[x] # "null"}} : f \in [keys -> FinderFound]}

\* what the `found` of the finder `key` starts as under `wild`
InitialFound(wild, key) ==
  IF <<key, "unmapped">> \in wild THEN "unmapped"
  ELSE IF <<key, "readable">> \in wild THEN "readable"
  ELSE "null"

\* The loop over schema_.required_parameters of AidlAnnotation::CheckValid.
CheckRequiredParameters(a) ==
  LET required == SortedKeys(a.schema.required_parameters)
      missing == SelectSeq(required, LAMBDA n : n \notin DOMAIN a.parameters)
  IN Failing([i \in DOMAIN missing |-> Diag("missing_required", a.loc, missing[i])])

\* AidlAnnotation::CheckValid.  `wild` holds <<parameter name, initial>> for the
\* finders that start from a non-null `found`.
AidlAnnotation_CheckValid(a, wild) ==
  LET keys == SortedKeys(DOMAIN a.parameters)
  IN AndThen(UntilFailure([i \in DOMAIN keys |->
                             CheckParameter(a, keys[i], InitialFound(wild, keys[i]))]),
             CheckRequiredParameters(a))

(***************************************************************************)
(* Annotatable                                                             *)
(***************************************************************************)
\* GetAnnotation: index of the first annotation of kind `type`, 0 for nullptr.
GetAnnotation(annotations, type) ==
  FirstIndex(annotations, LAMBDA a : a.schema.type = type)

\* a GetAnnotation whose assertion refuses a kind that is attached more than once
GetAnnotationCall_AbortsOnSeveral(annotations, type) ==
  IF Cardinality({i \in DOMAIN annotations : annotations[i].schema.type = type}) > 1
    THEN [aborted |-> TRUE, found |-> 0]
    ELSE [aborted |-> FALSE, found |-> GetAnnotation(annotations, type)]

\* A call of GetAnnotation with its assertion: AIDL_FATAL_IF(a.Repeatable(), a)
\* on the first annotation of the kind; `found` is its index, 0 for nullptr.
GetAnnotationCall(annotations, type) ==
  IF GetAnnotation(annotations, type) = 0 THEN [aborted |-> FALSE, found |-> 0]
  ELSE IF annotations[GetAnnotation(annotations, type)].schema.repeatable
    THEN [aborted |-> TRUE, found |-> 0]
  ELSE [aborted |-> FALSE, found |-> GetAnnotation(annotations, type)]

IsNullable(node) == GetAnnotation(node.annotations, "NULLABLE") # 0
IsUtf8InCpp(node) == GetAnnotation(node.annotations, "UTF8_IN_CPP") # 0
IsJavaOnlyImmutable(node) == GetAnnotation(node.annotations, "JAVA_ONLY_IMMUTABLE") # 0
IsFixedSize(node) == GetAnnotation(node.annotations, "FIXED_SIZE") # 0
BackingType(node) == GetAnnotation(node.annotations, "BACKING")

\* The finders one AidlAnnotatable::CheckValid call can construct: one per
\* (annotation index, parameter name).
FinderKeys(annotations) ==
  UNION {{<<i, n>> : n \in DOMAIN annotations[i].parameters} : i \in DOMAIN annotations}

\* the part of `wild` that concerns the finders of annotation i
WildOf(wild, i) == {<<w[1][2], w[2]>> : w \in {x \in wild : x[1][1] = i}}

\* First loop of AidlAnnotatable::CheckValid, one annotation.
CheckAttached(a, supported_annotations, loc, wild) ==
  IF a.schema.type \notin supported_annotations
    THEN Outcome(FALSE, <<Diag("annotation_not_supported", loc, a.schema.name)>>)
    ELSE AidlAnnotation_CheckValid(a, wild)

\* a second loop whose message prints the location of the repeated annotation
CheckDeclaredOnce_CitesItself(annotations, loc) ==
  LET repeated(i) == /\ \E j \in 1..(i - 1) : annotations[j].schema.type = annotations[i].schema.type
                     /\ ~annotations[i].schema.repeatable
      dup == IF \E i \in DOMAIN annotations : repeated(i)
               THEN CHOOSE i \in DOMAIN annotations :
                      repeated(i) /\ \A j \in 1..(i - 1) : ~repeated(j)
               ELSE 0
  IN IF dup # 0
       THEN Outcome(FALSE,
                    <<DiagCiting("annotation_repeated", loc, annotations[dup].schema.name,
                                 annotations[dup].loc)>>)
       ELSE Outcome(TRUE, << >>)

\* Second loop of AidlAnnotatable::CheckValid: declared.emplace fails for the
\* second annotation of a kind.
CheckDeclaredOnce(annotations, loc) ==
  LET repeated(i) == /\ \E j \in 1..(i - 1) : annotations[j].schema.type = annotations[i].schema.type
                     /\ ~annotations[i].schema.repeatable
      dup == IF \E i \in DOMAIN annotations : repeated(i)
               THEN CHOOSE i \in DOMAIN annotations :
                      repeated(i) /\ \A j \in 1..(i - 1) : ~repeated(j)
               ELSE 0
  IN IF dup # 0
       THEN Outcome(FALSE,
                    <<DiagCiting("annotation_repeated", loc, annotations[dup].schema.name,
                                 \* iter->second: the location the first emplace stored
                                 annotations[GetAnnotation(annotations,
                                                           annotations[dup].schema.type)].loc)>>)
       ELSE Outcome(TRUE, << >>)

\* AidlAnnotatable::CheckValid
AidlAnnotatable_CheckValid(annotations, supported_annotations, loc, wild) ==
  AndThen(UntilFailure([i \in DOMAIN annotations |->
                          CheckAttached(annotations[i], supported_annotations, loc,
                                        WildOf(wild, i))]),
          CheckDeclaredOnce(annotations, loc))

(***************************************************************************)
(* AidlTypeSpecifier::CheckValid                                           *)
(***************************************************************************)
\* AidlTypeSpecifier::GetSupportedAnnotations
TypeSpecifierSupportedAnnotations ==
  {"NULLABLE", "UTF8_IN_CPP", "UNSUPPORTED_APP_USAGE", "HIDE", "JAVA_PASSTHROUGH"}

\* The List branch after the arity test: contained_type is refused.
ListContainedTypeRefused(contained_type) ==
  IF IsBuiltinTypename(contained_type.name)
    THEN contained_type.name \notin {"String", "IBinder", "ParcelFileDescriptor"}
    ELSE GetInterface(contained_type)

\* The Map branch: num_params != 0 && num_params != 2
MapArityRefused_OneAllowed(num_params) == num_params > 2

MapArityRefused(num_params) == num_params # 0 /\ num_params # 2

\* The IsGeneric() block: the diagnostic it returns false with, or << >>.
CheckGeneric(t, loc) ==
  LET type_name == t.name
      types == t.params
      num_params == Len(types)
      defined_type == TryGetDefinedType(type_name)
      is_user_defined_generic_type ==
        IsParcelableKind(defined_type) /\ DeclaredTypeParams(type_name) > 0
  IN IF /\ type_name \in {"List", "Map"}
        /\ \E i \in DOMAIN types :
             GetEnumDeclaration(types[i]) \/ IsPrimitiveTypename(types[i].name)
       THEN <<Diag("generic_primitive_parameter", loc, type_name)>>
     ELSE IF type_name = "List"
       THEN IF num_params > 1 THEN <<Diag("list_one_parameter", loc, TypeSignature(t))>>
            ELSE IF ListContainedTypeRefused(types[1])
              THEN <<Diag("list_unsupported", loc, types[1].name)>>
            ELSE << >>
     ELSE IF type_name = "Map"
       THEN IF MapArityRefused(num_params)
              THEN <<Diag("map_parameter_count", loc, TypeSignature(t))>>
            ELSE IF num_params = 2 /\ types[1].name # "String"
              THEN <<Diag("map_key_not_string", loc, types[1].name)>>
            ELSE << >>
     ELSE IF is_user_defined_generic_type
       THEN IF num_params # DeclaredTypeParams(type_name)
              THEN <<Diag("generic_parameter_count", loc, type_name)>> ELSE << >>
     ELSE <<Diag("not_generic", loc, type_name)>>

\* The rules after the IsGeneric() block.
\* a test that forgets the array exemption
NullableOnPrimitive_ArraysToo(t) == IsNullable(t) /\ IsPrimitiveTypename(t.name)

\* "Primitive type cannot get nullable annotation"
NullableOnPrimitive(t) == IsNullable(t) /\ IsPrimitiveTypename(t.name) /\ ~IsArray(t)

CheckNonGeneric(t, loc) ==
  LET is_generic_string_list ==
        t.name = "List" /\ IsGeneric(t) /\ Len(t.params) = 1 /\ t.params[1].name = "String"
      defined_type == TryGetDefinedType(t.name)
  IN IF IsUtf8InCpp(t) /\ t.name # "String" /\ ~is_generic_string_list
       THEN <<Diag("utf8_not_string", loc, t.name)>>
     ELSE IF t.name = "void" /\ (IsArray(t) \/ IsNullable(t) \/ IsUtf8InCpp(t))
       THEN <<Diag("void_decorated", loc, t.name)>>
     ELSE IF IsArray(t) /\ defined_type = "interface"
       THEN <<Diag("binder_array", loc, t.name)>>
     ELSE IF IsArray(t) /\ t.name = "ParcelableHolder"
       THEN <<Diag("holder_array", loc, t.name)>>
     ELSE IF NullableOnPrimitive(t)
       THEN <<Diag("primitive_nullable", loc, t.name)>>
     ELSE IF IsNullable(t) /\ defined_type = "enum" /\ ~IsArray(t)
       THEN <<Diag("enum_nullable", loc, t.name)>>
     ELSE IF IsNullable(t) /\ t.name = "ParcelableHolder"
       THEN <<Diag("holder_nullable", loc, t.name)>>
     ELSE << >>

AidlTypeSpecifier_CheckValid(t, loc, wild) ==
  AndThen(AidlAnnotatable_CheckValid(t.annotations, TypeSpecifierSupportedAnnotations, loc,
                                     wild),
          AndThen(Failing(IF IsGeneric(t) THEN CheckGeneric(t, loc) ELSE << >>),
                  Failing(CheckNonGeneric(t, loc))))

(***************************************************************************)
(* Member declarations                                                     *)
(***************************************************************************)
\* AidlConstantValue::Default(type): the value a declaration without an explicit
\* default gets; nullptr for arrays and for every type that is no number or boolean.
DefaultValue(type) ==
  IF IsArray(type) THEN NullValue
  ELSE IF type.name = "boolean" THEN BooleanValue(FALSE)
  ELSE IF type.name \in {"byte", "int", "long"} THEN Integral(0)
  ELSE NullValue

\* AidlVariableDeclaration::AidlVariableDeclaration (both constructors)
AidlVariableDeclaration(location, type, name, default_value) ==
  IF default_value = NullValue
    THEN [type |-> type, name |-> name, default_value |-> DefaultValue(type),
          default_user_specified |-> FALSE, loc |-> location]
    ELSE [type |-> type, name |-> name, default_value |-> default_value,
          default_user_specified |-> TRUE, loc |-> location]

\* AidlVariableDeclaration::HasUsefulDefaultValue
HasUsefulDefaultValue_OnlyNullable(v) == IsNullable(v.type)

HasUsefulDefaultValue(v) ==
  IF v.default_value # NullValue THEN TRUE
  ELSE IF IsNullable(v.type) THEN TRUE
  ELSE FALSE

\* AidlVariableDeclaration::ValueString
VariableValueString(v) ==
  IF v.default_value # NullValue
    THEN ConstantValueString(v.default_value, v.type, << >>)
    ELSE ""

\* a default-value check that accepts a default which renders empty
CheckDefaultValue_NoRender(v, declared) ==
  IF v.default_value = NullValue \/ declared.died THEN declared
  ELSE Outcome(declared.ok /\ ConstantCheckValid(v.default_value, << >>), declared.diags)

\* AidlVariableDeclaration::CheckValid from `if (default_value_ == nullptr)` on;
\* `declared` is the outcome of the type and void checks before it.
CheckDefaultValue(v, declared) ==
  IF v.default_value = NullValue \/ declared.died THEN declared
  ELSE IF ~(declared.ok /\ ConstantCheckValid(v.default_value, << >>))
    THEN Outcome(FALSE, declared.diags)
  ELSE Outcome(VariableValueString(v) # "", declared.diags)

\* AidlVariableDeclaration::CheckValid
AidlVariableDeclaration_CheckValid(v, wild) ==
  CheckDefaultValue(v, Both(AidlTypeSpecifier_CheckValid(v.type, v.loc, wild),
                            Failing(IF v.type.name = "void"
                                      THEN <<Diag("declaration_void", v.loc, v.name)>>
                                      ELSE << >>)))

\* AidlVariableDeclaration::GetCapitalizedName, for the names the model uses
GetCapitalizedName(v) ==
  CASE v.name = "a" -> "A"
    [] v.name = "b" -> "B"
    [] v.name = "n" -> "N"
    [] v.name = "p" -> "P"
    [] v.name = "v" -> "V"
    [] OTHER -> v.name

(***************************************************************************)
(* AidlDefinedType                                                         *)
(***************************************************************************)
\* AidlTypenames::CanBeJavaOnlyImmutable for the types of the compilation unit:
\* a parcelable qualifies only when it is itself @JavaOnlyImmutable (none is).
CanBeJavaOnlyImmutable(type) ==
  IF IsGeneric(type) /\ type.name \in {"List", "Map"}
    THEN \A i \in DOMAIN type.params :
           \/ IsBuiltinTypename(type.params[i].name)
           \/ ~IsParcelableKind(TryGetDefinedType(type.params[i].name))
  ELSE IF IsBuiltinTypename(type.name) THEN TRUE
  ELSE ~IsParcelableKind(TryGetDefinedType(type.name))

\* std::set::emplace(...).second is false: an earlier element has the same key
DuplicatedAt(keys, i) == \E j \in 1..(i - 1) : keys[j] = keys[i]

\* AidlConstantDeclaration::AidlConstantDeclaration
AidlConstantDeclaration(location, type, name, value) ==
  [type |-> type, name |-> name, value |-> value, loc |-> location]

\* a set of constant types that also holds boolean
kSupportedConstTypes_WithBoolean == {"String", "byte", "int", "long", "boolean"}

\* kSupportedConstTypes
kSupportedConstTypes == {"String", "byte", "int", "long"}

\* AidlConstantDeclaration::CheckValid
AidlConstantDeclaration_CheckValid(c) ==
  AndThen(Both(AidlTypeSpecifier_CheckValid(c.type, c.loc, {}),
               Outcome(ConstantCheckValid(c.value, << >>), << >>)),
          Failing(IF TypeSignature(c.type) \notin kSupportedConstTypes
                    THEN <<Diag("constant_type_unsupported", c.loc, TypeSignature(c.type))>>
                    ELSE << >>))

\* One iteration of the loop over GetConstantDeclarations() entered while
\* success holds: a duplicate name is reported and, success being false from
\* then on, constant->CheckValid is skipped; otherwise the constant is validated.
CheckConstant(constants, i) ==
  IF DuplicatedAt([j \in DOMAIN constants |-> constants[j].name], i)
    THEN Outcome(FALSE, <<Diag("duplicate_constant_name", constants[i].loc,
                               constants[i].name)>>)
    ELSE AidlConstantDeclaration_CheckValid(constants[i])

\* The loop, given each iteration's outcome `outs`: after the first failed
\* iteration, or when entered with success = false,
\* success = success && constant->CheckValid(typenames) validates nothing more,
\* and only duplicate names are still reported.
ConstantsLoop(constants, outs, success) ==
  LET first == FirstIndex(outs, LAMBDA o : ~o.ok)
      ran(i) == \/ DuplicatedAt([j \in DOMAIN constants |-> constants[j].name], i)
                \/ success /\ (first = 0 \/ i <= first)
  IN Outcome(success /\ first = 0,
             Flatten([i \in DOMAIN outs |-> IF ran(i) THEN outs[i].diags ELSE << >>]))

\* The loop over GetConstantDeclarations(), entered with `success`.
CheckConstants(constants, success) ==
  ConstantsLoop(constants, [i \in DOMAIN constants |-> CheckConstant(constants, i)], success)

\* "field names should be unique"
DuplicateFieldNames(fields) ==
  Flatten([i \in DOMAIN fields |->
             IF DuplicatedAt([j \in DOMAIN fields |-> fields[j].name], i)
               THEN <<Diag("duplicate_field_name", fields[i].loc, fields[i].name)>>
               ELSE << >>])

\* "immutable parcelables should have immutable fields"
NonImmutableFields(decl) ==
  Flatten([i \in DOMAIN decl.fields |->
             IF IsJavaOnlyImmutable(decl) /\ ~CanBeJavaOnlyImmutable(decl.fields[i].type)
               THEN <<Diag("non_immutable_field", decl.fields[i].loc, decl.fields[i].name)>>
               ELSE << >>])

\* The constants loop of CheckValidWithMembers, entered with the success of the
\* field checks `members`.
WithConstants(decl, members) == Both(members, CheckConstants(decl.constants, members.ok))

\* AidlDefinedType::CheckValidWithMembers
CheckValidWithMembers(decl) ==
  WithConstants(decl,
                Both(Every([i \in DOMAIN decl.fields |->
                              AidlVariableDeclaration_CheckValid(decl.fields[i], {})]),
                     Both(Failing(DuplicateFieldNames(decl.fields)),
                          Failing(NonImmutableFields(decl)))))

\* a CheckValid that checks the members whatever the annotation check returned
AidlDefinedType_CheckValid_MembersAlways(decl, supported_annotations, wild) ==
  Both(AidlAnnotatable_CheckValid(decl.annotations, supported_annotations, decl.loc, wild),
       CheckValidWithMembers(decl))

\* AidlDefinedType::CheckValid
AidlDefinedType_CheckValid(decl, supported_annotations, wild) ==
  AndThen(AidlAnnotatable_CheckValid(decl.annotations, supported_annotations, decl.loc, wild),
          CheckValidWithMembers(decl))

\* a getter check on the names as written
CheckValidForGetterNames_AsWritten(decl) ==
  Failing(Flatten([i \in DOMAIN decl.fields |->
                     IF DuplicatedAt([j \in DOMAIN decl.fields |-> decl.fields[j].name], i)
                       THEN <<Diag("duplicate_getter_name", decl.fields[i].loc,
                                   decl.fields[i].name)>>
                       ELSE << >>]))

\* AidlDefinedType::CheckValidForGetterNames
CheckValidForGetterNames(decl) ==
  Failing(Flatten([i \in DOMAIN decl.fields |->
                     IF DuplicatedAt([j \in DOMAIN decl.fields |->
                                        GetCapitalizedName(decl.fields[j])], i)
                       THEN <<Diag("duplicate_getter_name", decl.fields[i].loc,
                                   decl.fields[i].name)>>
                       ELSE << >>]))

(***************************************************************************)
(* AidlEnumDeclaration                                                     *)
(***************************************************************************)
\* AidlEnumerator::AidlEnumerator
AidlEnumerator(location, name, value) ==
  [name |-> name, value |-> value, value_user_specified |-> value # NullValue,
   loc |-> location]

\* The constructor's loop body: the value enumerator i has after construction.
FilledValue_FromFirst(enumerators, i) ==
  IF enumerators[i].value # NullValue THEN enumerators[i].value
  ELSE IF i = 1 THEN Integral(0)
  ELSE AidlBinaryConstExpression(AidlConstantReference("", enumerators[1].name),
                                 "+", Integral(1))

FilledValue(enumerators, i) ==
  IF enumerators[i].value # NullValue THEN enumerators[i].value
  ELSE IF i = 1 THEN Integral(0)
  ELSE AidlBinaryConstExpression(AidlConstantReference("", enumerators[i - 1].name),
                                 "+", Integral(1))

\* AidlEnumDeclaration::AidlEnumDeclaration; backing_type_ starts as nullptr.
AidlEnumDeclaration(location, name, enumerators, annotations) ==
  [name |-> name, loc |-> location, annotations |-> annotations,
   fields |-> << >>, constants |-> << >>,
   \* the values the parser handed over, kept to state what construction did
   parsed |-> [i \in DOMAIN enumerators |-> enumerators[i].value],
   enumerators |-> [i \in DOMAIN enumerators |->
                      [enumerators[i] EXCEPT !.value = FilledValue(enumerators, i)]],
   backing_type |-> NoType, backing_resolved |-> FALSE]

\* AidlTypenames::ResolveTypename(name).is_resolved
IsResolvable(name) == IsBuiltinTypename(name) \/ name \in DOMAIN DefinedTypes

\* The backing type Autofill stores when no @Backing annotation is attached.
DefaultBackingTypeName == "byte"

\* AidlEnumDeclaration::Autofill: the return value, the diagnostics and the
\* declaration afterwards.
AidlEnumDeclaration_Autofill(e, wild) ==
  LET annot == BackingType(e)
      checked == AidlAnnotation_CheckValid(e.annotations[annot], wild)
      type == IF annot # 0 THEN ParamValueString(e.annotations[annot].parameters["type"])
              ELSE DefaultBackingTypeName
      resolved == IsResolvable(type)
  IN IF annot # 0 /\ ~checked.ok
       THEN [ok |-> FALSE, diags |-> checked.diags, decl |-> e, died |-> checked.died]
       ELSE [ok |-> TRUE,
             died |-> FALSE,
             diags |-> IF resolved THEN << >>
                       ELSE <<Diag("invalid_backing_type", e.loc, type)>>,
             decl |-> [e EXCEPT !.backing_type = PlainType(type),
                                !.backing_resolved = resolved]]

\* AidlEnumDeclaration::GetSupportedAnnotations
EnumSupportedAnnotations == {"VINTF_STABILITY", "BACKING", "HIDE", "JAVA_PASSTHROUGH"}

\* AidlEnumerator::CheckValid
AidlEnumerator_CheckValid(enumerator, enum_backing_type, env) ==
  IF enumerator.value = NullValue THEN Outcome(FALSE, << >>)
  ELSE IF ~ConstantCheckValid(enumerator.value, env) THEN Outcome(FALSE, << >>)
  ELSE IF ConstantValueString(enumerator.value, enum_backing_type, env) = ""
    THEN Outcome(FALSE, <<Diag("enumerator_type_differs", enumerator.loc, enumerator.name)>>)
  ELSE Outcome(TRUE, << >>)

\* the steps of AidlEnumDeclaration::CheckValid from the enumerator loop on
CheckEnumerators(e) ==
  \* success = success && enumerator->CheckValid(...): nothing runs after a failure
  AndThen(UntilFailure([i \in DOMAIN e.enumerators |->
                          AidlEnumerator_CheckValid(e.enumerators[i], e.backing_type,
                                                    e.enumerators)]),
          Advisory(IF ConstantValueString(e.enumerators[1].value, e.backing_type,
                                          e.enumerators) # "0"
                     THEN <<Diag("advisory_enum_zero", e.enumerators[1].loc,
                                 e.enumerators[1].name)>>
                     ELSE << >>))

\* a CheckValid without the backing_type_ == nullptr test
AidlEnumDeclaration_CheckValid_NoBackingTest(e, wild) ==
  AndThen(AidlDefinedType_CheckValid(e, EnumSupportedAnnotations, wild),
  AndThen(Failing(IF e.fields # << >> \/ e.constants # << >>
                    THEN <<Diag("enum_has_members", e.loc, e.name)>> ELSE << >>),
          CheckEnumerators(e)))

\* AidlEnumDeclaration::CheckValid
AidlEnumDeclaration_CheckValid(e, wild) ==
  AndThen(AidlDefinedType_CheckValid(e, EnumSupportedAnnotations, wild),
  AndThen(Failing(IF e.fields # << >> \/ e.constants # << >>
                    THEN <<Diag("enum_has_members", e.loc, e.name)>> ELSE << >>),
  AndThen(Failing(IF e.backing_type = NoType
                    THEN <<Diag("missing_backing_type", e.loc, e.name)>> ELSE << >>),
          CheckEnumerators(e))))

(***************************************************************************)
(* AidlParcelable and AidlUnionDecl                                        *)
(***************************************************************************)
\* AidlParameterizable<std::string>::CheckValid
AidlParameterizable_CheckValid(decl) ==
  IF decl.type_params = << >> THEN Outcome(TRUE, << >>)
  ELSE IF Cardinality(Range(decl.type_params)) # Len(decl.type_params)
    THEN Outcome(FALSE, <<Diag("type_parameter_not_unique", decl.loc, decl.name)>>)
  ELSE Outcome(TRUE, << >>)

\* AidlParcelable::CheckValid
AidlParcelable_CheckValid(decl, supported_annotations, wild) ==
  AndThen(AidlDefinedType_CheckValid(decl, supported_annotations, wild),
          AidlParameterizable_CheckValid(decl))

\* AidlUnionDecl::AidlUnionDecl
AidlUnionDecl(location, name, type_params, fields, annotations) ==
  [name |-> name, loc |-> location, annotations |-> annotations,
   type_params |-> type_params, fields |-> fields, constants |-> << >>]

\* AidlUnionDecl::GetSupportedAnnotations
UnionSupportedAnnotations ==
  {"VINTF_STABILITY", "HIDE", "JAVA_PASSTHROUGH", "JAVA_DERIVE", "JAVA_ONLY_IMMUTABLE",
   "RUST_DERIVE"}

\* AidlUnionDecl::CheckValid from "now, visit self!" on
CheckUnionFields(u) ==
  LET holders == Flatten([i \in DOMAIN u.fields |->
                            IF u.fields[i].type.name = "ParcelableHolder"
                              THEN <<Diag("union_holder_member", u.fields[i].loc,
                                          u.fields[i].name)>>
                              ELSE << >>])
      first == u.fields[1]
  IN IF u.fields = << >>
       THEN Outcome(FALSE, holders \o <<Diag("union_no_fields", u.loc, u.name)>>)
     ELSE IF ~HasUsefulDefaultValue(first) /\ ~IsArray(first.type)
             /\ GetEnumDeclaration(first.type)
       THEN Outcome(FALSE, holders \o <<Diag("union_first_enum_default", first.loc, first.name)>>)
     ELSE IF ~HasUsefulDefaultValue(first) /\ IsArray(first.type)
       THEN Outcome(FALSE, holders \o <<Diag("union_first_array_default", first.loc, first.name)>>)
     ELSE Failing(holders)

\* AidlUnionDecl::CheckValid
AidlUnionDecl_CheckValid(u, wild) ==
  AndThen(AidlParcelable_CheckValid(u, UnionSupportedAnnotations, wild),
          AndThen(CheckValidForGetterNames(u), CheckUnionFields(u)))

(***************************************************************************)
(* AidlParcelable and AidlStructuredParcelable declarations                *)
(***************************************************************************)
\* AidlParcelable::AidlParcelable: an unstructured parcelable has no members
AidlParcelable(location, name, type_params, annotations) ==
  [name |-> name, loc |-> location, annotations |-> annotations,
   type_params |-> type_params, fields |-> << >>, constants |-> << >>]

\* AidlParcelable::GetSupportedAnnotations
ParcelableSupportedAnnotations ==
  {"VINTF_STABILITY", "UNSUPPORTED_APP_USAGE", "JAVA_STABLE_PARCELABLE", "HIDE",
   "JAVA_PASSTHROUGH", "JAVA_ONLY_IMMUTABLE"}

\* AidlStructuredParcelable::AidlStructuredParcelable
AidlStructuredParcelable(location, name, type_params, fields, constants, annotations) ==
  [name |-> name, loc |-> location, annotations |-> annotations,
   type_params |-> type_params, fields |-> fields, constants |-> constants]

\* AidlStructuredParcelable::GetSupportedAnnotations
StructuredParcelableSupportedAnnotations ==
  {"VINTF_STABILITY", "UNSUPPORTED_APP_USAGE", "HIDE", "JAVA_PASSTHROUGH", "JAVA_DERIVE",
   "JAVA_ONLY_IMMUTABLE", "FIXED_SIZE", "RUST_DERIVE"}

\* AidlTypenames::CanBeFixedSize for the types of the compilation unit: a
\* parcelable qualifies only when it is itself @FixedSize (none is).
CanBeFixedSize(type) ==
  IF IsGeneric(type) \/ IsArray(type) THEN FALSE
  ELSE IF IsPrimitiveTypename(type.name) THEN TRUE
  ELSE IF IsBuiltinTypename(type.name) THEN FALSE
  ELSE TryGetDefinedType(type.name) = "enum"

\* the loop under if (IsFixedSize())
NonFixedSizeFields(decl) ==
  Flatten([i \in DOMAIN decl.fields |->
             IF IsFixedSize(decl) /\ ~CanBeFixedSize(decl.fields[i].type)
               THEN <<Diag("non_fixed_size_field", decl.fields[i].loc, decl.fields[i].name)>>
               ELSE << >>])

\* AidlStructuredParcelable::CheckValid after AidlParcelable::CheckValid
CheckStructuredParcelable(decl) ==
  Both(Failing(NonFixedSizeFields(decl)),
       IF IsJavaOnlyImmutable(decl) THEN CheckValidForGetterNames(decl)
       ELSE Outcome(TRUE, << >>))

\* AidlStructuredParcelable::CheckValid
AidlStructuredParcelable_CheckValid(decl, wild) ==
  AndThen(AidlParcelable_CheckValid(decl, StructuredParcelableSupportedAnnotations, wild),
          CheckStructuredParcelable(decl))

(***************************************************************************)
(* AidlArgument, AidlMethod, AidlInterface                                 *)
(***************************************************************************)
\* AidlArgument::AidlArgument: direction "" is the constructor without a
\* direction (IN_DIR, direction_specified_ = false).
AidlArgument(location, direction, type, name) ==
  [type |-> type, name |-> name, loc |-> location,
   direction |-> IF direction = "" THEN "in" ELSE direction,
   direction_specified |-> direction # ""]

IsOut(arg) == arg.direction \in {"out", "inout"}

\* AidlMethod::AidlMethod
AidlMethod(location, oneway, type, name, arguments) ==
  [oneway |-> oneway, type |-> type, name |-> name, arguments |-> arguments,
   loc |-> location]

\* AidlMethod::Signature
MethodSignature(m) ==
  m.name \o "("
  \o JoinStr([i \in DOMAIN m.arguments |-> TypeSignature(m.arguments[i].type)], ", ")
  \o ")"

\* AidlInterface::AidlInterface: ApplyInterfaceOneway(oneway) on every method
AidlInterface(location, name, oneway, methods, annotations) ==
  [name |-> name, loc |-> location, annotations |-> annotations,
   fields |-> << >>, constants |-> << >>,
   \* the interface-level flag the parser passed
   oneway |-> oneway,
   methods |-> [i \in DOMAIN methods |->
                  [methods[i] EXCEPT !.oneway = methods[i].oneway \/ oneway]]]

\* AidlInterface::GetSupportedAnnotations
InterfaceSupportedAnnotations ==
  {"SENSITIVE_DATA", "VINTF_STABILITY", "UNSUPPORTED_APP_USAGE", "HIDE",
   "JAVA_PASSTHROUGH", "DESCRIPTOR"}

\* AidlTypenames::CanBeOutParameter(type).first
CanBeOutParameter(type) ==
  IF IsBuiltinTypename(type.name) \/ GetEnumDeclaration(type)
    THEN IsArray(type) \/ type.name \in {"List", "Map"}
    ELSE IsParcelableKind(TryGetDefinedType(type.name))

kJavaKeywords ==
  {"abstract", "assert", "boolean", "break", "byte", "case", "catch", "char", "class",
   "const", "continue", "default", "do", "double", "else", "enum", "extends", "final",
   "finally", "float", "for", "goto", "if", "implements", "import", "instanceof", "int",
   "interface", "long", "native", "new", "package", "private", "protected", "public",
   "return", "short", "static", "strictfp", "super", "switch", "synchronized", "this",
   "throw", "throws", "transient", "try", "void", "volatile", "while", "true", "false",
   "null"}

IsJavaKeyword(name) == name \in kJavaKeywords

\* android::base::StartsWith(name, "_aidl"), for the argument names the model uses
StartsWithAidl(name) == name \in {"_aidl", "_aidl_x"}

reserved_methods ==
  {"asBinder()", "getInterfaceHash()", "getInterfaceVersion()", "getTransactionName(int)"}

\* a compiler that never asks for a direction
DirectionMissing_Never(arg) == FALSE

\* !arg->DirectionWasSpecified() && can_be_out
DirectionMissing(arg) == ~arg.direction_specified /\ CanBeOutParameter(arg.type)

\* arg->GetDirection() != AidlArgument::IN_DIR && !can_be_out
DirectionNotAllowed(arg) == arg.direction # "in" /\ ~CanBeOutParameter(arg.type)

\* The checks on argument `arg` of method m after its type passed CheckValid.
CheckArgumentRules(m, arg) ==
     IF arg.type.name = "ParcelableHolder"
       THEN Outcome(FALSE, <<Diag("holder_argument", arg.loc, arg.name)>>)
     ELSE IF m.oneway /\ IsOut(arg)
       THEN Outcome(FALSE, <<Diag("oneway_out_parameter", m.loc, m.name)>>)
     ELSE IF DirectionMissing(arg)
       THEN Outcome(FALSE, <<Diag("direction_required", arg.loc, TypeSignature(arg.type))>>)
     ELSE IF DirectionNotAllowed(arg)
       THEN Outcome(FALSE, <<Diag("direction_not_allowed", arg.loc, arg.name)>>)
     ELSE IF IsJavaKeyword(arg.name)
       THEN Outcome(FALSE, <<Diag("argument_keyword", arg.loc, arg.name)>>)
     ELSE IF StartsWithAidl(arg.name)
       THEN Outcome(FALSE, <<Diag("argument_aidl_prefix", arg.loc, arg.name)>>)
     ELSE IF arg.direction = "inout"
       THEN Advisory(<<Diag("advisory_inout_parameter", arg.loc, arg.name)>>)
     ELSE Outcome(TRUE, << >>)

\* The body of the loop over m->GetArguments() for argument i: the outcome of this
\* iteration (ok = FALSE is `return false`).
CheckArgument(m, i) ==
  AndThen(Failing(IF DuplicatedAt([j \in DOMAIN m.arguments |-> m.arguments[j].name], i)
                    THEN <<Diag("duplicate_argument_name", m.loc, m.arguments[i].name)>>
                    ELSE << >>),
          AndThen(AidlTypeSpecifier_CheckValid(m.arguments[i].type, m.arguments[i].loc, {}),
                  CheckArgumentRules(m, m.arguments[i])))

\* The key method_names is searched with and filled under.
MethodKey(m) == m.name

\* m->IsOneway() && m->GetType().GetName() != "void"
OnewayReturnRefused_Inverted(m) == m.oneway /\ m.type.name = "void"

OnewayReturnRefused(m) == m.oneway /\ m.type.name # "void"

\* The two AIDL_ERRORs of a redefinition: at m and at it->second.
RedefinitionDiags(m, earlier) ==
  <<Diag("method_redefined", m.loc, m.name),
    Diag("method_previously_defined", earlier.loc, earlier.name)>>

\* method_names.find(...) for method i: the methods before it passed, so each
\* of them is in method_names under its key (the first one wins).
CheckRedefinition(methods, i) ==
  LET keys == [j \in DOMAIN methods |-> MethodKey(methods[j])]
      previous == FirstIndex(SubSeq(keys, 1, i - 1), LAMBDA k : k = keys[i])
  IN IF previous # 0
       THEN Outcome(FALSE, RedefinitionDiags(methods[i], methods[previous]))
       ELSE Outcome(TRUE, << >>)

\* The body of the loop over GetMethods() for method i.
CheckMethod(methods, i) ==
  LET m == methods[i]
  IN AndThen(AidlTypeSpecifier_CheckValid(m.type, m.loc, {}),
     AndThen(Failing(IF m.type.name = "ParcelableHolder"
                       THEN <<Diag("holder_return_type", m.loc, m.name)>> ELSE << >>),
     AndThen(Failing(IF OnewayReturnRefused(m)
                       THEN <<Diag("oneway_returns_value", m.loc, m.name)>> ELSE << >>),
     AndThen(UntilFailure([j \in DOMAIN m.arguments |-> CheckArgument(m, j)]),
     AndThen(CheckRedefinition(methods, i),
             Failing(IF MethodSignature(m) \in reserved_methods
                       THEN <<Diag("method_reserved", m.loc, MethodSignature(m))>>
                       ELSE << >>))))))

\* name.size() >= 1 && name[0] == 'I', for the interface names the model uses
StartsWithI(name) == name \in {"IFoo", "I"}

\* AidlInterface::CheckValid
AidlInterface_CheckValid(itf, wild) ==
  AndThen(AidlDefinedType_CheckValid(itf, InterfaceSupportedAnnotations, wild),
  AndThen(UntilFailure([i \in DOMAIN itf.methods |-> CheckMethod(itf.methods, i)]),
          Both(CheckConstants(itf.constants, TRUE),
               Advisory(IF StartsWithI(itf.name) THEN << >>
                        ELSE <<Diag("advisory_interface_name", itf.loc, itf.name)>>))))

(***************************************************************************)
(* Specification of one annotation instance: the parser builds it with     *)
(* Parse, the compiler calls CheckValid on it.                             *)
(***************************************************************************)
ParseNames ==
  {"nullable", "UnsupportedAppUsage", "Backing", "JavaPassthrough", "JavaDerive",
   "Descriptor", "Bogus"}

SuppliedParameterNames == {"type", "maxTargetSdk", "toString", "value", "unknown"}

SuppliedValues ==
  {StringValue("int"), Integral(1), BooleanValue(TRUE), Malformed,
   AidlConstantReference("", "FOO"),
   AidlBinaryConstExpression(Integral(1), "+", AidlConstantReference("", "FOO"))}

ParameterLists ==
  UNION {[S -> SuppliedValues] :
           S \in {T \in SUBSET SuppliedParameterNames : Cardinality(T) <= MaxParams}}

ParseAnnotation ==
  /\ annotation = NoAnnotation
  /\ \E name \in ParseNames, parameter_list \in ParameterLists :
       annotation' = AnnotationParse(1, name, parameter_list)
  /\ annotationResult' = NoResult
  /\ UNCHANGED <<typeVars, enumVars, unionVars, ifaceVars, otherVars>>

CheckValidAnnotation ==
  /\ annotation # NoAnnotation
  /\ annotationResult.calls < MaxChecks
  /\ ~annotationResult.died
  /\ \E wild \in Indeterminate(DOMAIN annotation.parameters) :
       annotationResult' = Recorded(annotationResult, AidlAnnotation_CheckValid(annotation, wild))
  /\ UNCHANGED <<annotation, typeVars, enumVars, unionVars, ifaceVars, otherVars>>

(***************************************************************************)
(* C3.  AidlAnnotation::CheckValid returns true if and only if every       *)
(* supplied parameter name is in the schema's supported_parameters, no     *)
(* parameter value contains a reference, every parameter value's own       *)
(* CheckValid is true and every required parameter is supplied.            *)
(***************************************************************************)
AllNamesSupported(a) == DOMAIN a.parameters \subseteq DOMAIN a.schema.supported_parameters
NoValueHasReference(a) == \A n \in DOMAIN a.parameters : ~FirstReference(a.parameters[n]).found
AllValuesValid(a) == \A n \in DOMAIN a.parameters : ConstantCheckValid(a.parameters[n], << >>)
AllRequiredPresent(a) == a.schema.required_parameters \subseteq DOMAIN a.parameters

C3_ValidIffFourRules ==
  annotationResult.calls > 0 =>
    (annotationResult.ok <=>
       (/\ AllNamesSupported(annotation)
        /\ NoValueHasReference(annotation)
        /\ AllValuesValid(annotation)
        /\ AllRequiredPresent(annotation)))

\* the supplied parameters that break a rule of the parameter loop
ViolatingParameters(a) ==
  {n \in DOMAIN a.parameters : ~CheckParameter(a, n, "null").ok}

ParameterDiagnostics(result) ==
  SelectSeq(result.diags,
            LAMBDA d : d.id \in {"unsupported_parameter", "reference_not_allowed",
                                 "invalid_parameter_value"})

(***************************************************************************)
(* C19.  AidlAnnotation::CheckValid does not stop at a violating           *)
(* parameter: one call emits one diagnostic for each supplied parameter    *)
(* that has an unsupported name, contains a reference, has an invalid      *)
(* value or renders empty.                                                 *)
(***************************************************************************)
C19_OneDiagnosticPerViolation ==
  annotationResult.calls > 0 =>
    Len(ParameterDiagnostics(annotationResult)) >= Cardinality(ViolatingParameters(annotation))

\* the registry entries with this name
SchemasNamed(name) == {i \in DOMAIN AllSchemas : AllSchemas[i].name = name}

(***************************************************************************)
(* C30.  The annotation schema registry is well-formed: the schema names   *)
(* are pairwise distinct and so are the kind tags, hence Parse binds a     *)
(* name to the one schema of that name and TypeToString gives the name     *)
(* back from the kind; every required parameter of a schema is one of its  *)
(* supported parameters; JavaPassthrough is the only repeatable schema.    *)
(***************************************************************************)
C30_RegistryWellFormed ==
  /\ \A i, j \in DOMAIN AllSchemas :
       i # j => /\ AllSchemas[i].name # AllSchemas[j].name
                /\ AllSchemas[i].type # AllSchemas[j].type
  /\ \A i \in DOMAIN AllSchemas :
       /\ TypeToString(AllSchemas[i].type) = AllSchemas[i].name
       /\ AllSchemas[i].required_parameters \subseteq DOMAIN AllSchemas[i].supported_parameters
       /\ AllSchemas[i].repeatable = (AllSchemas[i].name = "JavaPassthrough")
  /\ annotation # NoAnnotation
       => /\ Cardinality(SchemasNamed(annotation.schema.name)) = 1
          /\ \A i \in SchemasNamed(annotation.schema.name) : annotation.schema = AllSchemas[i]
          /\ TypeToString(annotation.schema.type) = annotation.schema.name

\* @JavaPassthrough(type="int") was parsed and checked: its schema is the
\* repeatable one of the registry
C30_Witness ==
  /\ annotation # NoAnnotation /\ annotationResult.calls > 0
  /\ annotation.schema.name = "JavaPassthrough"
  /\ annotation.schema.type = "JAVA_PASSTHROUGH"
  /\ annotation.schema.repeatable
  /\ annotation.schema.required_parameters = {"annotation"}

(***************************************************************************)
(* Specification of one type specifier: the parser builds the specifier,   *)
(* appends its type parameters, and the compiler calls CheckValid.         *)
(***************************************************************************)
Annotate(kinds) == [i \in DOMAIN kinds |-> AnnotationParse(i, kinds[i], NoParameters)]

TypeNames ==
  {"List", "Map", "MyGeneric", "String", "int", "boolean", "long", "void", "IBinder",
   "ParcelableHolder", "MyParcelable", "MyEnum", "IMyInterface"}

TypeAnnotationLists ==
  {<< >>, <<"nullable">>, <<"utf8InCpp">>, <<"nullable", "nullable">>, <<"VintfStability">>}

\* what the parser can put between < and >
TypeArguments ==
  {PlainType(n) : n \in {"String", "IBinder", "ParcelFileDescriptor", "int", "MyEnum",
                         "MyParcelable", "MyUnion", "IMyInterface", "CharSequence"}}
  \cup {AidlTypeSpecifier("String", TRUE, FALSE, << >>, << >>)}

NewTypeSpecifier ==
  /\ typeSpec = NoType
  /\ \E name \in TypeNames, is_array \in BOOLEAN, kinds \in TypeAnnotationLists :
       typeSpec' = AidlTypeSpecifier(name, is_array, FALSE, << >>, Annotate(kinds))
  /\ typeResult' = NoResult
  /\ UNCHANGED <<annotationVars, enumVars, unionVars, ifaceVars, otherVars>>

\* an array of a generic type is a grammar error (AidlTypeSpecifier::ArrayBase)
AddTypeParameter ==
  /\ typeSpec # NoType
  /\ typeSpec.name \in {"List", "Map", "MyGeneric", "String"}
  /\ ~typeSpec.is_array
  /\ typeResult.calls = 0
  /\ Len(typeSpec.params) < MaxTypeParams
  /\ \E arg \in TypeArguments :
       typeSpec' = [typeSpec EXCEPT !.generic = TRUE, !.params = Append(@, arg)]
  /\ UNCHANGED <<typeResult, annotationVars, enumVars, unionVars, ifaceVars, otherVars>>

CheckValidType ==
  /\ typeSpec # NoType
  /\ typeResult.calls < MaxChecks
  /\ ~typeResult.died
  /\ \E wild \in Indeterminate(FinderKeys(typeSpec.annotations)) :
       typeResult' = Recorded(typeResult, AidlTypeSpecifier_CheckValid(typeSpec, 1, wild))
  /\ UNCHANGED <<typeSpec, annotationVars, enumVars, unionVars, ifaceVars, otherVars>>

(***************************************************************************)
(* C4.  A generic List<T> validates if and only if T is exactly String,    *)
(* IBinder, ParcelFileDescriptor or a user-defined parcelable/union that   *)
(* is not an interface; it fails for every enum T, every primitive T and   *)
(* every other built-in T.                                                 *)
(***************************************************************************)
\* T is one of the element types of the claim itself, not an array of one
ListElementAllowed(arg) ==
  /\ ~arg.is_array
  /\ ~IsGeneric(arg)
  /\ \/ arg.name \in {"String", "IBinder", "ParcelFileDescriptor"}
     \/ IsParcelableKind(TryGetDefinedType(arg.name))

C4_ListElement ==
  (typeResult.calls > 0 /\ typeSpec.name = "List" /\ IsGeneric(typeSpec)
   /\ Len(typeSpec.params) = 1)
  => /\ typeResult.ok <=> ListElementAllowed(typeSpec.params[1])
     /\ (\/ GetEnumDeclaration(typeSpec.params[1])
         \/ IsBuiltinTypename(typeSpec.params[1].name)
            /\ typeSpec.params[1].name \notin {"String", "IBinder", "ParcelFileDescriptor"})
        => ~typeResult.ok

(***************************************************************************)
(* C5.  A specifier named Map is accepted only with zero or exactly two    *)
(* type parameters, and with two only when the first one is named String.  *)
(***************************************************************************)
C5_MapArity ==
  (typeResult.calls > 0 /\ typeSpec.name = "Map" /\ typeResult.ok)
  => /\ Len(typeSpec.params) \in {0, 2}
     /\ Len(typeSpec.params) = 2 => typeSpec.params[1].name = "String"

C5_Witness ==
  /\ typeResult.calls > 0 /\ typeResult.ok
  /\ typeSpec.name = "Map" /\ Len(typeSpec.params) = 2
  /\ typeSpec.params[2].name = "MyParcelable"

C5_WitnessThree ==
  /\ typeResult.calls > 0 /\ ~typeResult.ok
  /\ typeSpec.name = "Map" /\ Len(typeSpec.params) = 3
  /\ \A i \in 1..3 : typeSpec.params[i].name = "String"

NullableDiagnostics(result) ==
  {d \in Range(result.diags) : d.id \in {"primitive_nullable", "enum_nullable"}}

(***************************************************************************)
(* C24.  AidlTypeSpecifier::CheckValid rejects @nullable on every          *)
(* primitive type that is not an array, on every enum type that is not an  *)
(* array and on ParcelableHolder; @nullable on an array of primitives or   *)
(* of enums is not rejected by these rules, and such an array with that    *)
(* one annotation validates.                                               *)
(***************************************************************************)
C24_NullableRejected ==
  (typeResult.calls > 0 /\ IsNullable(typeSpec)) =>
    /\ (IsPrimitiveTypename(typeSpec.name) /\ ~IsArray(typeSpec)) => ~typeResult.ok
    /\ (GetEnumDeclaration(typeSpec) /\ ~IsArray(typeSpec)) => ~typeResult.ok
    /\ typeSpec.name = "ParcelableHolder" => ~typeResult.ok
    /\ (/\ IsArray(typeSpec)
        /\ IsPrimitiveTypename(typeSpec.name) \/ GetEnumDeclaration(typeSpec))
         => /\ NullableDiagnostics(typeResult) = {}
            /\ (Len(typeSpec.annotations) = 1 /\ typeSpec.name # "void") => typeResult.ok

\* @nullable MyEnum is rejected as an enum
C24_Witness ==
  /\ typeResult.calls > 0 /\ ~typeResult.ok
  /\ typeSpec = AidlTypeSpecifier("MyEnum", FALSE, FALSE, << >>, Annotate(<<"nullable">>))
  /\ typeResult.diags = <<Diag("enum_nullable", 1, "MyEnum")>>

\* @nullable long[] validates
C24_WitnessArray ==
  /\ typeResult.calls > 0 /\ typeResult.ok
  /\ typeSpec = AidlTypeSpecifier("long", TRUE, FALSE, << >>, Annotate(<<"nullable">>))

(***************************************************************************)
(* Specification of one enum declaration: construction from the parsed     *)
(* enumerators, Autofill of the backing type, CheckValid.                  *)
(***************************************************************************)
NoEnum == AidlEnumDeclaration(0, "", << >>, << >>)

EnumeratorNames == <<"A", "B", "C", "D", "E">>

\* an enumerator without a value, or with an integer literal
ParsedEnumeratorValues == {NullValue, Integral(0), Integral(5), Integral(127)}

Backing(value) == AnnotationParse(1, "Backing", [n \in {"type"} |-> value])

EnumAnnotationLists ==
  {<< >>,
   <<Backing(StringValue("int"))>>,
   <<Backing(StringValue("long"))>>,
   <<Backing(StringValue("bogus"))>>,
   <<Backing(Integral(1))>>,
   <<AnnotationParse(1, "Backing", NoParameters)>>,
   <<AnnotationParse(1, "Hide", NoParameters), [Backing(StringValue("int")) EXCEPT !.loc = 2]>>,
   <<AnnotationParse(1, "nullable", NoParameters)>>}

NewEnumDeclaration ==
  /\ enumDecl = NoEnum
  /\ \E n \in 1..MaxEnumerators, annotations \in EnumAnnotationLists :
       \E values \in [1..n -> ParsedEnumeratorValues] :
         enumDecl' = AidlEnumDeclaration(
                       1, "MyEnum",
                       [i \in 1..n |-> AidlEnumerator(i, EnumeratorNames[i], values[i])],
                       annotations)
  /\ UNCHANGED <<enumAutofill, enumResult>>
  /\ UNCHANGED <<annotationVars, typeVars, unionVars, ifaceVars, otherVars>>

AutofillEnum ==
  /\ enumDecl # NoEnum
  /\ enumAutofill.calls = 0
  /\ ~enumResult.died
  /\ \E wild \in Indeterminate({"type"}) :
       LET out == AidlEnumDeclaration_Autofill(enumDecl, wild)
       IN /\ enumDecl' = out.decl
          /\ enumAutofill' = Recorded(enumAutofill, out)
  /\ enumResult' = NoResult
  /\ UNCHANGED <<annotationVars, typeVars, unionVars, ifaceVars, otherVars>>

CheckValidEnum ==
  /\ enumDecl # NoEnum
  /\ enumResult.calls < MaxChecks
  /\ ~enumResult.died
  /\ ~enumAutofill.died
  /\ \E wild \in Indeterminate(FinderKeys(enumDecl.annotations)) :
       enumResult' = Recorded(enumResult, AidlEnumDeclaration_CheckValid(enumDecl, wild))
  /\ UNCHANGED <<enumDecl, enumAutofill>>
  /\ UNCHANGED <<annotationVars, typeVars, unionVars, ifaceVars, otherVars>>

(***************************************************************************)
(* C6.  After construction every enumerator has a value: an explicit value *)
(* is kept, a first enumerator without one gets the literal 0, a later one *)
(* gets (previous enumerator) + 1; so A, B, C resolve to 0, 1, 2 and       *)
(* A = 5, B, C to 5, 6, 7.                                                 *)
(***************************************************************************)
RECURSIVE ExpectedNumber(_, _)
ExpectedNumber(parsed, i) ==
  IF parsed[i] # NullValue THEN parsed[i].n
  ELSE IF i = 1 THEN 0
  ELSE ExpectedNumber(parsed, i - 1) + 1

C6_EnumeratorValuesFilled ==
  enumDecl # NoEnum =>
    \A i \in DOMAIN enumDecl.enumerators :
      LET en == enumDecl.enumerators[i]
          resolved == Evaluate(en.value, enumDecl.enumerators)
      IN /\ en.value # NullValue
         /\ en.value_user_specified => en.value = enumDecl.parsed[i]
         /\ (~en.value_user_specified /\ i = 1) => en.value = Integral(0)
         /\ (~en.value_user_specified /\ i > 1) =>
              en.value = AidlBinaryConstExpression(
                           AidlConstantReference("", enumDecl.enumerators[i - 1].name),
                           "+", Integral(1))
         /\ resolved.ok /\ resolved.n = ExpectedNumber(enumDecl.parsed, i)

C6_Witness ==
  /\ Len(enumDecl.enumerators) = 3
  /\ enumDecl.parsed = <<Integral(5), NullValue, NullValue>>
  /\ [i \in 1..3 |-> Evaluate(enumDecl.enumerators[i].value, enumDecl.enumerators).n]
       = <<5, 6, 7>>

(***************************************************************************)
(* C7.  Autofill sets the backing type from the annotations: when a valid  *)
(* @Backing annotation is attached the backing type is the one its `type`  *)
(* parameter names (@Backing(type="int") gives int), when no @Backing      *)
(* annotation is attached it is byte.  A valid annotation is one that      *)
(* meets the rules of AidlAnnotation::CheckValid.                          *)
(***************************************************************************)
C7_BackingTypeAutofilled ==
  (enumDecl # NoEnum /\ enumAutofill.calls > 0) =>
    LET annot == BackingType(enumDecl)
    IN IF annot = 0
         THEN enumDecl.backing_type = PlainType("byte")
         ELSE AidlAnnotation_CheckValid(enumDecl.annotations[annot], {}).ok =>
                enumDecl.backing_type =
                  PlainType(enumDecl.annotations[annot].parameters["type"].s)

\* the annotation check of the enum, as CheckValid makes it first
EnumAnnotationsChecked(e, wild) ==
  AidlAnnotatable_CheckValid(e.annotations, EnumSupportedAnnotations, e.loc, wild)

(***************************************************************************)
(* C13 as stated.  CheckValid never returns true unless Autofill has set   *)
(* the backing type, and every CheckValid call made before Autofill        *)
(* returns false with the 'missing backing type' error.                    *)
(***************************************************************************)
C13_MissingBackingTypeAlways ==
  /\ (enumResult.calls > 0 /\ enumResult.ok) => enumDecl.backing_type # NoType
  /\ (enumResult.calls > 0 /\ enumAutofill.calls = 0)
       => /\ ~enumResult.died /\ ~enumResult.ok
          /\ Diag("missing_backing_type", enumDecl.loc, enumDecl.name)
               \in Range(enumResult.diags)

\* `result` is what a CheckValid made before Autofill ends with when the
\* annotation check of the enum ended with `checked`
BeforeAutofill(result, checked, e) ==
  IF checked.ok
    THEN /\ ~result.died /\ ~result.ok
         /\ result.diags = checked.diags \o <<Diag("missing_backing_type", e.loc, e.name)>>
    ELSE /\ ~result.ok
         /\ result.died = checked.died
         /\ result.diags = checked.diags

(***************************************************************************)
(* C13, amended.  CheckValid never returns true unless Autofill has run    *)
(* and set the backing type.  A CheckValid call made before Autofill never *)
(* returns true and reports nothing about an enumerator: when the          *)
(* annotations of the enum pass their check it returns false and emits the *)
(* 'missing backing type' error after their diagnostics, and when they do  *)
(* not pass it ends where their check ended, with their diagnostics alone. *)
(***************************************************************************)
C13_EnumNeedsAutofill ==
  /\ (enumResult.calls > 0 /\ enumResult.ok)
       => enumAutofill.calls > 0 /\ enumAutofill.ok /\ enumDecl.backing_type # NoType
  /\ (enumResult.calls > 0 /\ enumAutofill.calls = 0)
       => \E wild \in Indeterminate(FinderKeys(enumDecl.annotations)) :
            BeforeAutofill(enumResult, EnumAnnotationsChecked(enumDecl, wild), enumDecl)

\* A = 127, B, C without annotations, checked before Autofill: B and C do not
\* fit a byte, and only the missing backing type is reported
C13_Witness ==
  /\ enumAutofill.calls = 0 /\ enumResult.calls > 0
  /\ enumDecl.annotations = << >>
  /\ enumDecl.parsed = <<Integral(127), NullValue, NullValue>>
  /\ enumResult.diags = <<Diag("missing_backing_type", enumDecl.loc, enumDecl.name)>>

\* @Backing(type="int") enum MyEnum, checked before Autofill with the finder of
\* `type` starting from a pointer into unmapped memory: the process dies in the
\* annotation check, nothing is returned or reported
C13_WitnessDied ==
  /\ enumAutofill.calls = 0 /\ enumResult.calls > 0
  /\ enumDecl.annotations = <<Backing(StringValue("int"))>>
  /\ enumResult.died /\ enumResult.diags = << >>

(***************************************************************************)
(* C29.  AidlEnumDeclaration::Autofill returns false exactly when a        *)
(* @Backing annotation is attached and the CheckValid of that annotation   *)
(* fails, and then the backing type stays unset; in every other case it    *)
(* returns true and the backing type is set, also when the name of the     *)
(* backing type does not resolve: then the one error emitted is "Invalid   *)
(* backing type".                                                          *)
(***************************************************************************)
C29_AutofillResult ==
  (enumDecl # NoEnum /\ enumAutofill.calls > 0) =>
    /\ ~enumAutofill.died
    /\ BackingType(enumDecl) = 0 => enumAutofill.ok
    /\ (/\ BackingType(enumDecl) # 0
        /\ ~AidlAnnotation_CheckValid(enumDecl.annotations[BackingType(enumDecl)], {}).ok)
         => ~enumAutofill.ok
    /\ ~enumAutofill.ok
         => /\ BackingType(enumDecl) # 0
            /\ enumDecl.backing_type = NoType
            /\ \E wild \in Indeterminate({"type"}) :
                 /\ ~AidlAnnotation_CheckValid(enumDecl.annotations[BackingType(enumDecl)],
                                               wild).ok
                 /\ enumAutofill.diags =
                      AidlAnnotation_CheckValid(enumDecl.annotations[BackingType(enumDecl)],
                                                wild).diags
    /\ enumAutofill.ok
         => /\ enumDecl.backing_type # NoType
            /\ enumAutofill.diags =
                 IF IsResolvable(enumDecl.backing_type.name) THEN << >>
                 ELSE <<Diag("invalid_backing_type", enumDecl.loc, enumDecl.backing_type.name)>>

(***************************************************************************)
(* Specification of one union declaration: the parser builds it field by   *)
(* field, the compiler calls CheckValid.  The annotations attached here    *)
(* carry no parameters.                                                    *)
(***************************************************************************)
NoUnion == AidlUnionDecl(0, "", << >>, << >>, << >>)

UnionAnnotationLists == {<< >>, <<"JavaOnlyImmutable">>, <<"nullable">>}

FieldTypes ==
  {PlainType("int"), PlainType("String"), PlainType("MyEnum"), PlainType("ParcelableHolder"),
   AidlTypeSpecifier("MyEnum", FALSE, FALSE, << >>, Annotate(<<"nullable">>)),
   AidlTypeSpecifier("MyEnum", TRUE, FALSE, << >>, << >>),
   AidlTypeSpecifier("MyEnum", TRUE, FALSE, << >>, Annotate(<<"nullable">>))}

\* no default, or one the user wrote
ParsedDefaults ==
  {NullValue, Integral(1), AidlConstantReference("MyEnum", "FOO"), ArrayValue, Malformed}

\* the fields a union gets after its first one
LaterFields ==
  {AidlVariableDeclaration(2, PlainType("int"), "b", NullValue),
   AidlVariableDeclaration(2, PlainType("int"), "a", NullValue),
   AidlVariableDeclaration(2, PlainType("int"), "A", NullValue),
   AidlVariableDeclaration(2, PlainType("MyEnum"), "b", NullValue),
   AidlVariableDeclaration(2, PlainType("ParcelableHolder"), "b", NullValue),
   AidlVariableDeclaration(2, PlainType("String"), "b", Malformed)}

NewUnionDecl ==
  /\ unionDecl = NoUnion
  /\ \E kinds \in UnionAnnotationLists, type_params \in {<< >>, <<"T">>, <<"T", "T">>} :
       unionDecl' = AidlUnionDecl(1, "MyUnion", type_params, << >>, Annotate(kinds))
  /\ UNCHANGED unionResult
  /\ UNCHANGED <<annotationVars, typeVars, enumVars, ifaceVars, otherVars>>

AddUnionField ==
  /\ unionDecl # NoUnion
  /\ unionResult.calls = 0
  /\ Len(unionDecl.fields) < MaxFields
  /\ \/ /\ unionDecl.fields = << >>
        /\ \E type \in FieldTypes, default_value \in ParsedDefaults :
             unionDecl' = [unionDecl EXCEPT !.fields =
                             <<AidlVariableDeclaration(1, type, "a", default_value)>>]
     \/ /\ unionDecl.fields # << >>
        /\ \E field \in LaterFields :
             unionDecl' = [unionDecl EXCEPT !.fields =
                             Append(@, [field EXCEPT !.loc = Len(unionDecl.fields) + 1])]
  /\ UNCHANGED unionResult
  /\ UNCHANGED <<annotationVars, typeVars, enumVars, ifaceVars, otherVars>>

CheckValidUnion ==
  /\ unionDecl # NoUnion
  /\ unionResult.calls < MaxChecks
  /\ ~unionResult.died
  /\ \E wild \in Indeterminate(FinderKeys(unionDecl.annotations)) :
       unionResult' = Recorded(unionResult, AidlUnionDecl_CheckValid(unionDecl, wild))
  /\ UNCHANGED unionDecl
  /\ UNCHANGED <<annotationVars, typeVars, enumVars, ifaceVars, otherVars>>

(***************************************************************************)
(* C8.  A union whose first field is a non-array enum that is not nullable *)
(* and has no default value fails CheckValid; the same union, failing for  *)
(* that reason alone, passes once the first field has an explicit valid    *)
(* default value.                                                          *)
(***************************************************************************)
FirstFieldIsPlainEnum(u) ==
  /\ u.fields # << >>
  /\ ~IsArray(u.fields[1].type)
  /\ GetEnumDeclaration(u.fields[1].type)
  /\ ~IsNullable(u.fields[1].type)

WithoutFirstDefault(u) ==
  [u EXCEPT !.fields[1] = AidlVariableDeclaration(@.loc, @.type, @.name, NullValue)]

C8_UnionFirstEnumDefault ==
  (unionResult.calls > 0 /\ FirstFieldIsPlainEnum(unionDecl)) =>
    LET first == unionDecl.fields[1]
    IN /\ first.default_value = NullValue => ~unionResult.ok
       /\ (/\ first.default_user_specified
           /\ ConstantCheckValid(first.default_value, << >>)
           /\ ConstantValueString(first.default_value, first.type, << >>) # ""
           /\ AidlUnionDecl_CheckValid(WithoutFirstDefault(unionDecl), {}).diags
                = <<Diag("union_first_enum_default", first.loc, first.name)>>)
          => unionResult.ok

C8_Witness ==
  /\ unionResult.calls > 0 /\ unionResult.ok
  /\ FirstFieldIsPlainEnum(unionDecl)
  /\ unionDecl.fields[1].default_value = AidlConstantReference("MyEnum", "FOO")
  /\ Len(unionDecl.fields) = 2

(***************************************************************************)
(* Specification of one interface: the parser creates it, adds methods,    *)
(* and AidlInterface::CheckValid runs on it.                               *)
(***************************************************************************)
NoInterface == [name |-> "", methods |-> << >>]

\* interface name, interface-level oneway, annotations
InterfaceHeaders ==
  {<<"IFoo", FALSE, << >> >>, <<"Foo", FALSE, << >> >>, <<"IFoo", TRUE, << >> >>,
   <<"IFoo", FALSE, <<"nullable">> >>}

\* An argument as parsed: direction ("" when none is written), type, name.
Arg(direction, type, name) == <<direction, type, name>>

kParcelableType == PlainType("MyParcelable")

\* The methods the parser can add: oneway, return type, name, arguments.
MethodTemplates ==
  {<<FALSE, PlainType("void"), "foo", <<Arg("", kIntType, "x")>> >>,
   <<FALSE, PlainType("void"), "foo", <<Arg("", kLongType, "x")>> >>,
   <<FALSE, kIntType, "bar", << >> >>,
   <<TRUE, kIntType, "foo", <<Arg("", kIntType, "x")>> >>,
   <<TRUE, PlainType("void"), "baz", <<Arg("out", kParcelableType, "p")>> >>,
   <<FALSE, PlainType("void"), "baz", <<Arg("inout", kParcelableType, "p")>> >>,
   <<FALSE, PlainType("void"), "qux", <<Arg("", kParcelableType, "p")>> >>,
   <<FALSE, PlainType("void"), "qux", <<Arg("out", kIntType, "x")>> >>,
   <<FALSE, PlainType("void"), "qux", <<Arg("", kIntType, "x"), Arg("", kLongType, "x")>> >>,
   <<FALSE, PlainType("void"), "quux", <<Arg("", kIntType, "int")>> >>,
   <<FALSE, PlainType("void"), "getTransactionName", <<Arg("", kIntType, "x")>> >>,
   <<FALSE, AidlTypeSpecifier("int", FALSE, FALSE, << >>, Annotate(<<"nullable">>)), "bar",
     << >> >>}

\* The method of template t declared at position i (locations are positions).
MethodAt(t, i) ==
  AidlMethod(i, t[1], t[2], t[3],
             [j \in DOMAIN t[4] |-> AidlArgument(10 * i + j, t[4][j][1], t[4][j][2], t[4][j][3])])

NewInterface ==
  /\ iface = NoInterface
  /\ \E h \in InterfaceHeaders :
       iface' = AidlInterface(0, h[1], h[2], << >>, Annotate(h[3]))
  /\ UNCHANGED ifaceResult
  /\ UNCHANGED <<annotationVars, typeVars, enumVars, unionVars, otherVars>>

\* The parser collects one more member before the constructor runs.
AddMethod ==
  /\ iface # NoInterface
  /\ ifaceResult.calls = 0
  /\ Len(iface.methods) < MaxMethods
  /\ \E t \in MethodTemplates :
       iface' = AidlInterface(iface.loc, iface.name, iface.oneway,
                              Append(iface.methods, MethodAt(t, Len(iface.methods) + 1)),
                              iface.annotations)
  /\ UNCHANGED ifaceResult
  /\ UNCHANGED <<annotationVars, typeVars, enumVars, unionVars, otherVars>>

CheckValidInterface ==
  /\ iface # NoInterface
  /\ ifaceResult.calls < MaxChecks
  /\ ~ifaceResult.died
  /\ \E wild \in Indeterminate(FinderKeys(iface.annotations)) :
       ifaceResult' = Recorded(ifaceResult, AidlInterface_CheckValid(iface, wild))
  /\ UNCHANGED iface
  /\ UNCHANGED <<annotationVars, typeVars, enumVars, unionVars, otherVars>>

\* Every check of CheckValid on method m other than the redefinition check
\* and the reserved-name check passes.
MethodOtherwiseValid(m) ==
  /\ AidlTypeSpecifier_CheckValid(m.type, m.loc, {}).ok
  /\ m.type.name # "ParcelableHolder"
  /\ m.oneway => m.type.name = "void"
  /\ \A j \in DOMAIN m.arguments : CheckArgument(m, j).ok

\* The interface itself is valid and so is every method, redefinition aside.
OtherwiseValid(itf) ==
  /\ AidlDefinedType_CheckValid(itf, InterfaceSupportedAnnotations, {}).ok
  /\ \A i \in DOMAIN itf.methods :
       /\ MethodOtherwiseValid(itf.methods[i])
       /\ MethodSignature(itf.methods[i]) \notin reserved_methods

Redefinitions(result) == {d \in Range(result.diags) : d.id = "method_redefined"}
Citations(result) == {d \in Range(result.diags) : d.id = "method_previously_defined"}

SameName(itf, i, j) == itf.methods[i].name = itf.methods[j].name
SameSignature(itf, i, j) ==
  MethodSignature(itf.methods[i]) = MethodSignature(itf.methods[j])

(***************************************************************************)
(* C1.  Method uniqueness             is decided on the signature: in an     *)
(* interface whose methods are otherwise valid and pairwise different in   *)
(* signature, methods that share a name coexist: CheckValid returns true   *)
(* and reports no redefinition.                                            *)
(***************************************************************************)
C1_UniqueBySignature ==
  (/\ ifaceResult.calls > 0
   /\ OtherwiseValid(iface)
   /\ \A i, j \in DOMAIN iface.methods : i # j => ~SameSignature(iface, i, j))
  => ifaceResult.ok /\ Redefinitions(ifaceResult) = {}

\* The first method declared with the signature of method i.
FirstWithSignature(itf, i) ==
  CHOOSE j \in DOMAIN itf.methods :
    SameSignature(itf, i, j) /\ \A k \in 1..(j - 1) : ~SameSignature(itf, i, k)

(***************************************************************************)
(* C2.  For every interface with two methods of the same signature         *)
(* CheckValid returns false and emits a pair of diagnostics: 'attempt to   *)
(* redefine' at a later method of that signature and 'previously defined   *)
(* here' at the first method declared with that signature.  The claim      *)
(* covers every interface; it is stated here for the interfaces that have  *)
(* no other error, where no earlier check returns before the redefinition  *)
(* check.                                                                  *)
(***************************************************************************)
C2_DuplicateSignatureCited ==
  (ifaceResult.calls > 0 /\ OtherwiseValid(iface))
  => \A i \in DOMAIN iface.methods :
       FirstWithSignature(iface, i) # i
       => /\ ~ifaceResult.ok
          /\ \E later \in DOMAIN iface.methods :
               /\ later > FirstWithSignature(iface, i)
               /\ SameSignature(iface, later, i)
               /\ \E d \in Redefinitions(ifaceResult) : d.at = iface.methods[later].loc
          /\ \E d \in Citations(ifaceResult) :
               d.at = iface.methods[FirstWithSignature(iface, i)].loc

OnewayReturnsValue(m) == m.oneway /\ m.type.name # "void"
OnewayHasOut(m) == m.oneway /\ \E j \in DOMAIN m.arguments : IsOut(m.arguments[j])

(***************************************************************************)
(* C9.  An interface with a oneway method whose return type is not void,   *)
(* or with a oneway method that has an out or inout argument, is never     *)
(* accepted by CheckValid; the diagnostic for a oneway return value names  *)
(* a oneway method that returns a value, and it is emitted when that       *)
(* method is the first defect of the interface.                            *)
(***************************************************************************)
C9_OnewayRejected ==
  ifaceResult.calls > 0
  => /\ (\E i \in DOMAIN iface.methods :
           OnewayReturnsValue(iface.methods[i]) \/ OnewayHasOut(iface.methods[i]))
        => ~ifaceResult.ok
     /\ \A d \in Range(ifaceResult.diags) :
          d.id = "oneway_returns_value"
          => \E i \in DOMAIN iface.methods :
               /\ OnewayReturnsValue(iface.methods[i])
               /\ d.at = iface.methods[i].loc /\ d.what = iface.methods[i].name
     /\ (/\ iface.methods # << >>
         /\ AidlDefinedType_CheckValid(iface, InterfaceSupportedAnnotations, {}).ok
         /\ OnewayReturnsValue(iface.methods[1])
         /\ iface.methods[1].type.name # "ParcelableHolder"
         /\ AidlTypeSpecifier_CheckValid(iface.methods[1].type, 1, {}).ok)
        => ifaceResult.diags = <<Diag("oneway_returns_value", 1, iface.methods[1].name)>>

\* a valid method followed by a oneway method that returns int
C9_Witness ==
  /\ ifaceResult.calls > 0 /\ ~ifaceResult.ok
  /\ Len(iface.methods) = 2
  /\ ~OnewayReturnsValue(iface.methods[1]) /\ ~OnewayHasOut(iface.methods[1])
  /\ OnewayReturnsValue(iface.methods[2])
  /\ Diag("oneway_returns_value", 2, iface.methods[2].name) \in Range(ifaceResult.diags)

\* the arguments of the interface, each with the location CheckValid reports it at
ArgumentsOf(itf) ==
  UNION {Range(itf.methods[i].arguments) : i \in DOMAIN itf.methods}

WrittenWithoutDirection(arg) == ~arg.direction_specified
CanBeOut(arg) == CanBeOutParameter(arg.type)

(***************************************************************************)
(* C17.  AidlInterface::CheckValid holds argument directions against       *)
(* CanBeOutParameter: an interface with an argument written without a      *)
(* direction whose type can be an out parameter is rejected, and so is one *)
(* with an out or inout argument whose type cannot be an out parameter; an *)
(* argument written without a direction whose type cannot be an out        *)
(* parameter is `in` and draws no direction error, and each direction      *)
(* error is emitted at an argument that breaks the rule it names.          *)
(***************************************************************************)
C17_DirectionRules ==
  ifaceResult.calls > 0 =>
    /\ (\E arg \in ArgumentsOf(iface) : WrittenWithoutDirection(arg) /\ CanBeOut(arg))
         => ~ifaceResult.ok
    /\ (\E arg \in ArgumentsOf(iface) : arg.direction \in {"out", "inout"} /\ ~CanBeOut(arg))
         => ~ifaceResult.ok
    /\ \A arg \in ArgumentsOf(iface) :
         (WrittenWithoutDirection(arg) /\ ~CanBeOut(arg))
           => /\ arg.direction = "in"
              /\ \A d \in Range(ifaceResult.diags) :
                   d.at = arg.loc => d.id \notin {"direction_required", "direction_not_allowed"}
    /\ \A d \in Range(ifaceResult.diags) :
         /\ d.id = "direction_required"
              => \E arg \in ArgumentsOf(iface) :
                   arg.loc = d.at /\ WrittenWithoutDirection(arg) /\ CanBeOut(arg)
         /\ d.id = "direction_not_allowed"
              => \E arg \in ArgumentsOf(iface) :
                   arg.loc = d.at /\ arg.direction \in {"out", "inout"} /\ ~CanBeOut(arg)

\* void foo(int x); void qux(MyParcelable p); in IFoo: x passes, p is refused
C17_Witness ==
  /\ ifaceResult.calls > 0 /\ ~ifaceResult.ok
  /\ Len(iface.methods) = 2
  /\ iface.methods[1].arguments[1].type = kIntType
  /\ WrittenWithoutDirection(iface.methods[1].arguments[1])
  /\ iface.methods[2].arguments # << >>
  /\ iface.methods[2].arguments[1].type = kParcelableType
  /\ ifaceResult.diags = <<Diag("direction_required", 21, "MyParcelable")>>

\* The second of two CheckValid calls in a row gave the result of the first.
SameOutcome(before, after) ==
  (before.calls > 0 /\ after.calls = before.calls + 1)
  => ~after.died /\ after.ok = before.ok /\ Range(after.diags) = Range(before.diags)

(***************************************************************************)
(* C10.  CheckValid is idempotent: a CheckValid call that directly follows *)
(* another one on the same annotation, type specifier, enum, union or      *)
(* interface returns the same boolean and emits the same set of            *)
(* diagnostics.                                                            *)
(***************************************************************************)
C10_CheckValidIdempotent ==
  [][/\ SameOutcome(annotationResult, annotationResult')
     /\ SameOutcome(typeResult, typeResult')
     /\ SameOutcome(enumResult, enumResult')
     /\ SameOutcome(unionResult, unionResult')
     /\ SameOutcome(ifaceResult, ifaceResult')]_vars

(***************************************************************************)
(* AidlTypeSpecifier::Resolve against the type-name table.  The table is   *)
(* the external AidlTypenames: documents add their defined types to it, a  *)
(* lookup name then resolves to the canonical name of the declaration.     *)
(* The reference to the declaration (defined_type_) is its canonical name, *)
(* "" for nullptr.                                                         *)
(***************************************************************************)
MaxResolves == 3     \* Resolve calls made on one type specifier

\* canonical names a document can register under a lookup name
Registrable(n) ==
  CASE n = "Foo"   -> {"p.Foo", "q.Foo"}
    [] n = "Bar"   -> {"p.Bar"}
    [] n = "p.Foo" -> {"p.Foo"}

LookupNames == {"Foo", "Bar", "p.Foo"}
EmptyTypenames == [n \in LookupNames |-> ""]

\* AidlTypenames::ResolveTypename: built-in names resolve to themselves and
\* name no declaration
ResolveTypename(table, name) ==
  IF IsBuiltinTypename(name)
    THEN [is_resolved |-> TRUE, canonical_name |-> name, defined_type |-> ""]
  ELSE IF name \in DOMAIN table /\ table[name] # ""
    THEN [is_resolved |-> TRUE, canonical_name |-> table[name], defined_type |-> table[name]]
  ELSE [is_resolved |-> FALSE, canonical_name |-> "", defined_type |-> ""]

\* android::base::Split(name, "."), for the names of the compilation unit
Split(name) ==
  CASE name = "p.Foo" -> <<"p", "Foo">>
    [] name = "q.Foo" -> <<"q", "Foo">>
    [] name = "p.Bar" -> <<"p", "Bar">>
    [] OTHER -> <<name>>

NoSpecifier ==
  [unresolved_name |-> "", fully_qualified_name |-> "", split_name |-> <<"">>,
   defined_type |-> ""]

\* AidlTypeSpecifier::AidlTypeSpecifier: the name as written, and its parts
UnresolvedType(unresolved_name) ==
  [unresolved_name |-> unresolved_name, fully_qualified_name |-> "",
   split_name |-> Split(unresolved_name), defined_type |-> ""]

IsResolved(t) == t.fully_qualified_name # ""

\* a store that does not look at result.is_resolved
StoreResolved_Always(t, result) ==
  [t EXCEPT !.fully_qualified_name = result.canonical_name,
            !.split_name = Split(result.canonical_name),
            !.defined_type = result.defined_type]

\* `if (result.is_resolved)`: the canonical name, its parts and the declaration
\* are stored
StoreResolved(t, result) ==
  IF result.is_resolved
    THEN [t EXCEPT !.fully_qualified_name = result.canonical_name,
                   !.split_name = Split(result.canonical_name),
                   !.defined_type = result.defined_type]
    ELSE t

\* the Resolve that lacks the AIDL_FATAL_IF of its first line
AidlTypeSpecifier_Resolve_Unguarded(t, table) ==
  [aborted |-> FALSE,
   returned |-> ResolveTypename(table, t.unresolved_name).is_resolved,
   type |-> StoreResolved(t, ResolveTypename(table, t.unresolved_name))]

\* `aborted`: the call hit AIDL_FATAL_IF and did not return
AidlTypeSpecifier_Resolve(t, table) ==
  IF IsResolved(t)
    THEN [aborted |-> TRUE, returned |-> FALSE, type |-> t]
    ELSE [aborted |-> FALSE,
          returned |-> ResolveTypename(table, t.unresolved_name).is_resolved,
          type |-> StoreResolved(t, ResolveTypename(table, t.unresolved_name))]

NoResolve == [calls |-> 0, returned |-> FALSE, aborted |-> FALSE]
UnresolvedNames == {"int", "String", "Foo", "Bar", "p.Foo", "Baz"}

\* a document registers one of its defined types
AddDefinedType ==
  /\ ~resolveResult.aborted
  /\ \E n \in LookupNames : \E c \in Registrable(n) :
       /\ typenames[n] = ""
       /\ typenames' = [typenames EXCEPT ![n] = c]
  /\ UNCHANGED <<resolving, resolveResult>>
  /\ UNCHANGED <<kindVars, annotatedVars, importVars, constantVars, declVars, documentVars,
                 memberVars>>

NewTypeToResolve ==
  /\ resolving = NoSpecifier
  /\ \E n \in UnresolvedNames : resolving' = UnresolvedType(n)
  /\ UNCHANGED <<typenames, resolveResult>>
  /\ UNCHANGED <<kindVars, annotatedVars, importVars, constantVars, declVars, documentVars,
                 memberVars>>

\* an aborted process makes no further call
Resolve ==
  /\ resolving # NoSpecifier
  /\ ~resolveResult.aborted
  /\ resolveResult.calls < MaxResolves
  /\ resolving' = AidlTypeSpecifier_Resolve(resolving, typenames).type
  /\ resolveResult' =
       [calls |-> resolveResult.calls + 1,
        returned |-> AidlTypeSpecifier_Resolve(resolving, typenames).returned,
        aborted |-> AidlTypeSpecifier_Resolve(resolving, typenames).aborted]
  /\ UNCHANGED typenames
  /\ UNCHANGED <<kindVars, annotatedVars, importVars, constantVars, declVars, documentVars,
                 memberVars>>

(***************************************************************************)
(* C11.  A type specifier is resolved at most once: a Resolve call made on *)
(* a specifier that an earlier call resolved hits the fatal assertion and  *)
(* does not return, and the stored canonical name and defined-type         *)
(* reference of a resolved specifier never change.                         *)
(***************************************************************************)
C11_ResolvedAtMostOnce ==
  [][IsResolved(resolving)
       => /\ resolving' = resolving
          /\ resolveResult'.calls = resolveResult.calls + 1 => resolveResult'.aborted]_vars

\* Foo was unknown at the first call, resolved to q.Foo at the second, and
\* the third call aborted
C11_Witness ==
  /\ resolveResult.calls = 3 /\ resolveResult.aborted
  /\ resolving = [unresolved_name |-> "Foo", fully_qualified_name |-> "q.Foo",
                  split_name |-> <<"q", "Foo">>,
                  defined_type |-> "q.Foo"]

(***************************************************************************)
(* C28.  A failed Resolve leaves the specifier as it was: when the         *)
(* type-name table does not resolve the name, Resolve returns false, the   *)
(* canonical name, the split name and the defined-type reference keep      *)
(* their values, the specifier stays unresolved, and the next Resolve call *)
(* on it does not hit the fatal assertion.                                 *)
(***************************************************************************)
C28_FailedResolveKeeps ==
  [][resolveResult'.calls = resolveResult.calls + 1
       => /\ (/\ ~IsResolved(resolving)
              /\ ~ResolveTypename(typenames, resolving.unresolved_name).is_resolved)
               => /\ ~resolveResult'.returned /\ ~resolveResult'.aborted
                  /\ resolving' = resolving
                  /\ ~IsResolved(resolving')
          /\ (/\ resolveResult.calls > 0
              /\ ~resolveResult.returned /\ ~resolveResult.aborted)
               => ~resolveResult'.aborted]_vars

\* p.Foo is unknown to the table at two calls in a row: the second call is
\* made on the specifier the constructor built
C28_Witness ==
  /\ resolveResult.calls = 2
  /\ ~resolveResult.returned /\ ~resolveResult.aborted
  /\ resolving = UnresolvedType("p.Foo")

(***************************************************************************)
(* Specification of one defined type of any kind: the parser collects its  *)
(* annotations and members, the constructor of its kind runs (and Autofill *)
(* for an enum), the compiler calls the CheckValid of its kind on it.      *)
(***************************************************************************)
MaxConstants == 1    \* constants of one defined type

NoDefinedType == [kind |-> "none", decl |-> AidlParcelable(0, "", << >>, << >>)]

Kinds == {"parcelable", "structured_parcelable", "union", "enum", "interface"}

\* the virtual GetSupportedAnnotations
SupportedAnnotations(kind) ==
  CASE kind = "parcelable"            -> ParcelableSupportedAnnotations
    [] kind = "structured_parcelable" -> StructuredParcelableSupportedAnnotations
    [] kind = "union"                 -> UnionSupportedAnnotations
    [] kind = "enum"                  -> EnumSupportedAnnotations
    [] kind = "interface"             -> InterfaceSupportedAnnotations

\* the virtual CheckValid
DefinedType_CheckValid(t, wild) ==
  CASE t.kind = "parcelable" ->
         AidlParcelable_CheckValid(t.decl, ParcelableSupportedAnnotations, wild)
    [] t.kind = "structured_parcelable" -> AidlStructuredParcelable_CheckValid(t.decl, wild)
    [] t.kind = "union"                 -> AidlUnionDecl_CheckValid(t.decl, wild)
    [] t.kind = "enum"                  -> AidlEnumDeclaration_CheckValid(t.decl, wild)
    [] t.kind = "interface"             -> AidlInterface_CheckValid(t.decl, wild)

\* annotations without parameters a declaration can carry
DeclAnnotationLists ==
  {<< >>, <<"JavaOnlyImmutable">>, <<"FixedSize">>, <<"nullable">>, <<"Hide", "Hide">>,
   <<"JavaOnlyImmutable", "FixedSize">>}

DeclTypeParams == {<< >>, <<"T", "T">>}

DeclEnumerators ==
  {<<AidlEnumerator(1, "A", NullValue)>>,
   <<AidlEnumerator(1, "A", Integral(1))>>,
   <<AidlEnumerator(1, "A", Integral(127)), AidlEnumerator(2, "B", NullValue)>>}

DeclFields ==
  {AidlVariableDeclaration(0, PlainType("int"), "a", NullValue),
   AidlVariableDeclaration(0, PlainType("int"), "A", NullValue),
   AidlVariableDeclaration(0, PlainType("String"), "b", Malformed),
   AidlVariableDeclaration(0, PlainType("MyParcelable"), "p", NullValue),
   AidlVariableDeclaration(0, AidlTypeSpecifier("int", FALSE, FALSE, << >>,
                                                Annotate(<<"nullable">>)), "n", NullValue)}

DeclConstants ==
  {AidlConstantDeclaration(0, kIntType, "X", Integral(1)),
   AidlConstantDeclaration(0, kBooleanType, "Y", BooleanValue(TRUE)),
   AidlConstantDeclaration(0, kIntType, "Z", Malformed)}

\* void foo(int x); void baz(inout MyParcelable p); oneway int foo(int x);
\* @nullable int bar()
DeclMethods ==
  {<<FALSE, PlainType("void"), "foo", <<Arg("", kIntType, "x")>> >>,
   <<FALSE, PlainType("void"), "baz", <<Arg("inout", kParcelableType, "p")>> >>,
   <<TRUE, kIntType, "foo", <<Arg("", kIntType, "x")>> >>,
   <<FALSE, AidlTypeSpecifier("int", FALSE, FALSE, << >>, Annotate(<<"nullable">>)), "bar",
     << >> >>}

\* the names an interface can be declared with
InterfaceNames == {"IFoo", "Foo"}

\* the constructor of the kind on a declaration without members
Construct(kind, annotations, type_params, enumerators) ==
  CASE kind = "parcelable" -> AidlParcelable(1, "MyParcelable", type_params, annotations)
    [] kind = "structured_parcelable" ->
         AidlStructuredParcelable(1, "MyParcelable", type_params, << >>, << >>, annotations)
    [] kind = "union" -> AidlUnionDecl(1, "MyUnion", type_params, << >>, annotations)
    [] kind = "enum" ->
         AidlEnumDeclaration_Autofill(AidlEnumDeclaration(1, "MyEnum", enumerators, annotations),
                                      {}).decl
    [] kind = "interface" -> AidlInterface(1, "IFoo", FALSE, << >>, annotations)

NewDefinedType ==
  /\ definedType = NoDefinedType
  /\ \E kind \in Kinds, kinds \in DeclAnnotationLists :
       \E type_params \in IF IsParcelableKind(kind) THEN DeclTypeParams ELSE {<< >>},
          enumerators \in IF kind = "enum" THEN DeclEnumerators ELSE {<< >>},
          name \in IF kind = "interface" THEN InterfaceNames ELSE {""} :
         definedType' =
           [kind |-> kind,
            decl |-> IF kind = "interface"
                       THEN AidlInterface(1, name, FALSE, << >>, Annotate(kinds))
                       ELSE Construct(kind, Annotate(kinds), type_params, enumerators)]
  /\ UNCHANGED definedTypeResult
  /\ UNCHANGED <<kindVars, resolveVars, annotatedVars, importVars, constantVars, documentVars,
                 memberVars>>

\* The parser collects one more member before the constructor runs.
AddField ==
  /\ definedType.kind \in {"structured_parcelable", "union"}
  /\ definedTypeResult.calls = 0
  /\ Len(definedType.decl.fields) < MaxFields
  /\ \E field \in DeclFields :
       definedType' = [definedType EXCEPT !.decl.fields =
                         Append(@, [field EXCEPT !.loc = Len(definedType.decl.fields) + 1])]
  /\ UNCHANGED definedTypeResult
  /\ UNCHANGED <<kindVars, resolveVars, annotatedVars, importVars, constantVars, documentVars,
                 memberVars>>

AddConstant ==
  /\ definedType.kind \in {"structured_parcelable", "interface"}
  /\ definedTypeResult.calls = 0
  /\ Len(definedType.decl.constants) < MaxConstants
  /\ \E c \in DeclConstants :
       definedType' = [definedType EXCEPT !.decl.constants =
                         Append(@, [c EXCEPT !.loc = Len(definedType.decl.constants) + 1])]
  /\ UNCHANGED definedTypeResult
  /\ UNCHANGED <<kindVars, resolveVars, annotatedVars, importVars, constantVars, documentVars,
                 memberVars>>

AddDeclaredMethod ==
  /\ definedType.kind = "interface"
  /\ definedTypeResult.calls = 0
  /\ Len(definedType.decl.methods) < MaxMethods
  /\ \E t \in DeclMethods :
       definedType' = [definedType EXCEPT !.decl.methods =
                         Append(@, MethodAt(t, Len(definedType.decl.methods) + 1))]
  /\ UNCHANGED definedTypeResult
  /\ UNCHANGED <<kindVars, resolveVars, annotatedVars, importVars, constantVars, documentVars,
                 memberVars>>

CheckValidDefinedType ==
  /\ definedType # NoDefinedType
  /\ definedTypeResult.calls < MaxChecks
  /\ ~definedTypeResult.died
  /\ \E wild \in Indeterminate(FinderKeys(definedType.decl.annotations)) :
       definedTypeResult' = Recorded(definedTypeResult, DefinedType_CheckValid(definedType, wild))
  /\ UNCHANGED definedType
  /\ UNCHANGED <<kindVars, resolveVars, annotatedVars, importVars, constantVars, documentVars,
                 memberVars>>

\* The stages of a declaration's validation, each run on its own: the
\* annotations of the declaration (none has a parameter here), and the members
\* shared by every kind.
StageAnnotations(t) ==
  AidlAnnotatable_CheckValid(t.decl.annotations, SupportedAnnotations(t.kind), t.decl.loc, {})
StageMembers(t) == CheckValidWithMembers(t.decl)

IsAdvisory(d) ==
  d.id \in {"advisory_enum_zero", "advisory_interface_name", "advisory_inout_parameter"}

IsPrefix(s, t) == Len(s) <= Len(t) /\ SubSeq(t, 1, Len(s)) = s

(***************************************************************************)
(* C12.  The CheckValid of every declaration kind validates in the order   *)
(* annotations, members, kind-specific rules: when the annotations fail    *)
(* it returns false with the annotation diagnostics alone; when the        *)
(* annotations pass and the members fail it returns false with the         *)
(* diagnostics of these two stages alone; the kind-specific rules add      *)
(* their diagnostics after those of the two stages; and it returns true    *)
(* only when both stages passed and no error was emitted.                  *)
(***************************************************************************)
C12_StageOrder ==
  definedTypeResult.calls > 0 =>
    /\ ~StageAnnotations(definedType).ok
         => /\ ~definedTypeResult.ok
            /\ definedTypeResult.diags = StageAnnotations(definedType).diags
    /\ StageAnnotations(definedType).ok /\ ~StageMembers(definedType).ok
         => /\ ~definedTypeResult.ok
            /\ definedTypeResult.diags =
                 StageAnnotations(definedType).diags \o StageMembers(definedType).diags
    /\ StageAnnotations(definedType).ok /\ StageMembers(definedType).ok
         => IsPrefix(StageAnnotations(definedType).diags \o StageMembers(definedType).diags,
                     definedTypeResult.diags)
    /\ definedTypeResult.ok
         => /\ StageAnnotations(definedType).ok /\ StageMembers(definedType).ok
            /\ \A d \in Range(definedTypeResult.diags) : IsAdvisory(d)

\* a structured parcelable with an unsupported annotation and an invalid
\* field: only the annotation is reported
C12_Witness ==
  /\ definedTypeResult.calls > 0
  /\ definedType.kind = "structured_parcelable"
  /\ ~StageAnnotations(definedType).ok
  /\ ~StageMembers(definedType).ok
  /\ definedTypeResult.diags = <<Diag("annotation_not_supported", 1, "nullable")>>

(***************************************************************************)
(* C22.  AidlDefinedType::CheckValidWithMembers checks every member in one *)
(* call: whatever failed before, each field's CheckValid and each          *)
(* constant's CheckValid is invoked, so the diagnostics of every violating *)
(* field and constant are in the result.                                   *)
(***************************************************************************)
C22_EveryMemberChecked ==
  definedTypeResult.calls > 0 /\ StageAnnotations(definedType).ok =>
    /\ \A i \in DOMAIN definedType.decl.fields :
         Range(AidlVariableDeclaration_CheckValid(definedType.decl.fields[i], {}).diags)
           \subseteq Range(definedTypeResult.diags)
    /\ \A i \in DOMAIN definedType.decl.constants :
         Range(AidlConstantDeclaration_CheckValid(definedType.decl.constants[i]).diags)
           \subseteq Range(definedTypeResult.diags)

\* the enum is valid, whatever its first enumerator renders as
EnumOtherwiseValid(e) ==
  /\ AidlDefinedType_CheckValid(e, EnumSupportedAnnotations, {}).ok
  /\ e.backing_type # NoType
  /\ \A i \in DOMAIN e.enumerators :
       AidlEnumerator_CheckValid(e.enumerators[i], e.backing_type, e.enumerators).ok

\* the interface is valid: its annotations, constants and methods are, and no
\* method is declared twice
InterfaceOtherwiseValid(itf) ==
  /\ OtherwiseValid(itf)
  /\ \A i, j \in DOMAIN itf.methods : i # j => itf.methods[i].name # itf.methods[j].name

InoutArguments(itf) ==
  {arg \in ArgumentsOf(itf) : arg.direction = "inout"}

\* the advisories an interface calls for
InterfaceAdvisories(itf) ==
  {Diag("advisory_inout_parameter", arg.loc, arg.name) : arg \in InoutArguments(itf)}
  \cup (IF StartsWithI(itf.name) THEN {}
        ELSE {Diag("advisory_interface_name", itf.loc, itf.name)})

(***************************************************************************)
(* C25.  An advisory never changes a validation result.  CheckValid of an  *)
(* otherwise valid enum whose first enumerator does not render as 0        *)
(* returns true and reports the enum_zero advisory alone; CheckValid of an *)
(* otherwise valid interface whose name does not start with I or that has  *)
(* an inout argument returns true and reports the interface_name and       *)
(* inout_parameter advisories that apply, and nothing else.                *)
(***************************************************************************)
C25_AdvisoriesDoNotFail ==
  definedTypeResult.calls > 0 =>
    /\ (/\ definedType.kind = "enum"
        /\ EnumOtherwiseValid(definedType.decl)
        /\ ConstantValueString(definedType.decl.enumerators[1].value,
                               definedType.decl.backing_type,
                               definedType.decl.enumerators) # "0")
         => /\ definedTypeResult.ok
            /\ definedTypeResult.diags =
                 <<Diag("advisory_enum_zero", definedType.decl.enumerators[1].loc,
                        definedType.decl.enumerators[1].name)>>
    /\ (/\ definedType.kind = "interface"
        /\ InterfaceOtherwiseValid(definedType.decl)
        /\ InterfaceAdvisories(definedType.decl) # {})
         => /\ definedTypeResult.ok
            /\ Range(definedTypeResult.diags) = InterfaceAdvisories(definedType.decl)
            /\ Len(definedTypeResult.diags) = Cardinality(InterfaceAdvisories(definedType.decl))

\* enum MyEnum { A = 1 }
C25_Witness ==
  /\ definedTypeResult.calls > 0 /\ definedTypeResult.ok
  /\ definedType.kind = "enum"
  /\ definedTypeResult.diags = <<Diag("advisory_enum_zero", 1, "A")>>

\* interface Foo { void baz(inout MyParcelable p); }
C25_WitnessInterface ==
  /\ definedTypeResult.calls > 0 /\ definedTypeResult.ok
  /\ definedType.kind = "interface"
  /\ definedTypeResult.diags = <<Diag("advisory_inout_parameter", 11, "p"),
                                 Diag("advisory_interface_name", 1, "Foo")>>

\* two fields have the same name once the first letter is capitalized
GetterNamesCollide(decl) ==
  \E i, j \in DOMAIN decl.fields :
    i # j /\ GetCapitalizedName(decl.fields[i]) = GetCapitalizedName(decl.fields[j])

GetterDiagnostics(result) == {d \in Range(result.diags) : d.id = "duplicate_getter_name"}

\* the structured parcelable passes every check but the one on getter names
StructuredOtherwiseValid(decl) ==
  /\ AidlParcelable_CheckValid(decl, StructuredParcelableSupportedAnnotations, {}).ok
  /\ NonFixedSizeFields(decl) = << >>

(***************************************************************************)
(* C26.  Getter names.  A structured parcelable marked @JavaOnlyImmutable  *)
(* fails CheckValid when two of its fields have the same name after the    *)
(* first letter is capitalized; a structured parcelable that is not marked *)
(* is not subject to the check: no getter-name error is reported and, when *)
(* it is valid otherwise, it passes; a union with such a collision fails   *)
(* CheckValid whether it is marked or not.                                 *)
(***************************************************************************)
C26_GetterNames ==
  definedTypeResult.calls > 0 =>
    /\ (/\ definedType.kind = "structured_parcelable"
        /\ IsJavaOnlyImmutable(definedType.decl)
        /\ GetterNamesCollide(definedType.decl)) => ~definedTypeResult.ok
    /\ (/\ definedType.kind = "structured_parcelable"
        /\ ~IsJavaOnlyImmutable(definedType.decl))
         => /\ GetterDiagnostics(definedTypeResult) = {}
            /\ StructuredOtherwiseValid(definedType.decl) => definedTypeResult.ok
    /\ (definedType.kind = "union" /\ GetterNamesCollide(definedType.decl))
         => ~definedTypeResult.ok

\* @JavaOnlyImmutable parcelable MyParcelable { int a; int A; }: the second
\* field is reported
C26_Witness ==
  /\ definedTypeResult.calls > 0 /\ ~definedTypeResult.ok
  /\ definedType.kind = "structured_parcelable"
  /\ [i \in DOMAIN definedType.decl.fields |-> definedType.decl.fields[i].name] = <<"a", "A">>
  /\ definedTypeResult.diags = <<Diag("duplicate_getter_name", 2, "A")>>

\* parcelable MyParcelable { int a; int A; } passes
C26_WitnessNotImmutable ==
  /\ definedTypeResult.calls > 0 /\ definedTypeResult.ok
  /\ definedType.kind = "structured_parcelable"
  /\ GetterNamesCollide(definedType.decl)

\* union MyUnion { int a; int A; }, not marked, fails on the getter names
C26_WitnessUnion ==
  /\ definedTypeResult.calls > 0 /\ ~definedTypeResult.ok
  /\ definedType.kind = "union"
  /\ ~IsJavaOnlyImmutable(definedType.decl)
  /\ definedTypeResult.diags = <<Diag("duplicate_getter_name", 2, "A")>>

(***************************************************************************)
(* Specification of one annotatable node: the parser attaches annotations  *)
(* to it, the compiler calls AidlAnnotatable::CheckValid on it.            *)
(***************************************************************************)
MaxAnnotations == 4  \* annotations attached to one node
MaxFetches == 1      \* GetAnnotation calls recorded on one node

NoNode == [loc |-> 0, supported |-> {}, annotations |-> << >>]

NoFetch == [calls |-> 0, type |-> "", aborted |-> FALSE, found |-> 0]

\* GetSupportedAnnotations() of a type specifier and of an enum declaration
NodeSupportedAnnotations == {TypeSpecifierSupportedAnnotations, EnumSupportedAnnotations}

\* @Hide, @nullable, @VintfStability, @JavaPassthrough(annotation="x"),
\* @JavaPassthrough, @Backing(type=1)
Attachable ==
  {AnnotationParse(0, "Hide", NoParameters),
   AnnotationParse(0, "nullable", NoParameters),
   AnnotationParse(0, "VintfStability", NoParameters),
   AnnotationParse(0, "JavaPassthrough", [n \in {"annotation"} |-> StringValue("x")]),
   AnnotationParse(0, "JavaPassthrough", NoParameters),
   AnnotationParse(0, "Backing", [n \in {"type"} |-> Integral(1)])}

NewNode ==
  /\ annotated = NoNode
  /\ \E supported \in NodeSupportedAnnotations :
       annotated' = [loc |-> 10, supported |-> supported, annotations |-> << >>]
  /\ UNCHANGED <<annotatedResult, fetched>>
  /\ UNCHANGED <<kindVars, resolveVars, importVars, constantVars, declVars, documentVars,
                 memberVars>>

\* the annotation attached at position i is located at i
Attach ==
  /\ annotated # NoNode
  /\ annotatedResult.calls = 0
  /\ fetched.calls = 0
  /\ Len(annotated.annotations) < MaxAnnotations
  /\ \E a \in Attachable :
       annotated' = [annotated EXCEPT !.annotations =
                       Append(@, [a EXCEPT !.loc = Len(annotated.annotations) + 1])]
  /\ UNCHANGED <<annotatedResult, fetched>>
  /\ UNCHANGED <<kindVars, resolveVars, importVars, constantVars, declVars, documentVars,
                 memberVars>>

\* CheckValid and GetAnnotation both leave the node as it is: a behaviour
\* records the calls of one of them.
CheckValidAnnotated ==
  /\ annotated # NoNode
  /\ annotatedResult.calls < MaxChecks
  /\ ~annotatedResult.died
  /\ fetched.calls = 0
  /\ \E wild \in Indeterminate(FinderKeys(annotated.annotations)) :
       annotatedResult' =
         Recorded(annotatedResult,
                  AidlAnnotatable_CheckValid(annotated.annotations, annotated.supported,
                                             annotated.loc, wild))
  /\ UNCHANGED <<annotated, fetched>>
  /\ UNCHANGED <<kindVars, resolveVars, importVars, constantVars, declVars, documentVars,
                 memberVars>>

\* annotation i is a second or later one of a kind that is not repeatable
RepeatsKind(annotations, i) ==
  /\ ~annotations[i].schema.repeatable
  /\ \E j \in 1..(i - 1) : annotations[j].schema.type = annotations[i].schema.type

\* the first annotation of the kind with this name
FirstOfName(annotations, name) == FirstIndex(annotations, LAMBDA a : a.schema.name = name)

Repetitions(result) == {d \in Range(result.diags) : d.id = "annotation_repeated"}

(***************************************************************************)
(* C14.  AidlAnnotatable::CheckValid returns true only if every attached   *)
(* annotation is of a supported kind and passes its own CheckValid and no  *)
(* kind that is not repeatable is attached twice; a repeatable kind is     *)
(* never reported as repeated; and the diagnostic for a repeated kind      *)
(* cites the location of the first annotation of that kind.                *)
(***************************************************************************)
C14_AnnotatableValid ==
  annotatedResult.calls > 0 =>
    /\ annotatedResult.ok =>
         \A i \in DOMAIN annotated.annotations :
           /\ annotated.annotations[i].schema.type \in annotated.supported
           /\ AidlAnnotation_CheckValid(annotated.annotations[i], {}).ok
           /\ ~RepeatsKind(annotated.annotations, i)
    /\ \A d \in Repetitions(annotatedResult) :
         /\ FirstOfName(annotated.annotations, d.what) # 0
         /\ ~annotated.annotations[FirstOfName(annotated.annotations, d.what)].schema.repeatable
         /\ d.cites = annotated.annotations[FirstOfName(annotated.annotations, d.what)].loc
         /\ \E i \in DOMAIN annotated.annotations :
              /\ RepeatsKind(annotated.annotations, i)
              /\ annotated.annotations[i].schema.name = d.what
              /\ d.cites < annotated.annotations[i].loc

\* @JavaPassthrough twice is let through, the second @Hide is reported and
\* the first one, at 2, is cited
C14_Witness ==
  /\ annotatedResult.calls > 0 /\ ~annotatedResult.ok
  /\ [i \in DOMAIN annotated.annotations |-> annotated.annotations[i].schema.name]
       = <<"JavaPassthrough", "Hide", "JavaPassthrough", "Hide">>
  /\ annotatedResult.diags = <<DiagCiting("annotation_repeated", 10, "Hide", 2)>>

\* the attached annotations that break a rule of AidlAnnotatable::CheckValid
ViolatingAnnotations(node) ==
  {i \in DOMAIN node.annotations :
     \/ ~CheckAttached(node.annotations[i], node.supported, node.loc, {}).ok
     \/ RepeatsKind(node.annotations, i)}

(***************************************************************************)
(* C21.  AidlAnnotatable::CheckValid keeps scanning after a violation: one *)
(* call emits a diagnostic for each attached annotation that is of an      *)
(* unsupported kind, that fails its own CheckValid or that repeats a kind  *)
(* which is not repeatable, not only for the first of them.                *)
(***************************************************************************)
C21_EveryAnnotationReported ==
  annotatedResult.calls > 0 =>
    Len(annotatedResult.diags) >= Cardinality(ViolatingAnnotations(annotated))

\* The kinds GetAnnotation is asked for: HIDE by IsHide, BACKING by
\* BackingType, and JAVA_PASSTHROUGH, the one kind its assertion refuses.
FetchedKinds == {"HIDE", "BACKING", "JAVA_PASSTHROUGH"}

\* An accessor built on GetAnnotation is called on the node.
Fetch ==
  /\ annotated # NoNode
  /\ annotatedResult.calls = 0
  /\ fetched.calls < MaxFetches
  /\ \E type \in FetchedKinds :
       fetched' = [calls |-> fetched.calls + 1, type |-> type,
                   aborted |-> GetAnnotationCall(annotated.annotations, type).aborted,
                   found |-> GetAnnotationCall(annotated.annotations, type).found]
  /\ UNCHANGED <<annotated, annotatedResult>>
  /\ UNCHANGED <<kindVars, resolveVars, importVars, constantVars, declVars, documentVars,
                 memberVars>>

\* the positions of the annotations of a kind on the node
OfKind(node, type) == {i \in DOMAIN node.annotations : node.annotations[i].schema.type = type}

IsRepeatableKind(type) ==
  \E i \in DOMAIN AllSchemas : AllSchemas[i].type = type /\ AllSchemas[i].repeatable

(***************************************************************************)
(* C27, as stated.  Fetching the single annotation of a kind that is not   *)
(* repeatable aborts when more than one annotation of that kind is         *)
(* attached to the node.                                                   *)
(***************************************************************************)
C27_AbortsOnSeveral ==
  (/\ fetched.calls > 0
   /\ ~IsRepeatableKind(fetched.type)
   /\ Cardinality(OfKind(annotated, fetched.type)) > 1) => fetched.aborted

(***************************************************************************)
(* C27.  Fetching the single annotation of a kind that is not repeatable   *)
(* never aborts: it returns the first annotation of that kind attached to  *)
(* the node, also when more than one is attached, and nullptr when none    *)
(* is.  The fatal assertion of GetAnnotation fires exactly when the        *)
(* annotation found is of a repeatable kind.                               *)
(***************************************************************************)
C27_FirstOfKindFetched ==
  fetched.calls > 0 =>
    /\ fetched.aborted =
         (IsRepeatableKind(fetched.type) /\ OfKind(annotated, fetched.type) # {})
    /\ (~fetched.aborted /\ OfKind(annotated, fetched.type) # {})
         => /\ fetched.found \in OfKind(annotated, fetched.type)
            /\ \A i \in OfKind(annotated, fetched.type) : fetched.found <= i
    /\ OfKind(annotated, fetched.type) = {} => fetched.found = 0

\* @Hide at 2 and at 4: IsHide finds the one at 2 and does not abort
C27_Witness ==
  /\ fetched.calls > 0 /\ fetched.type = "HIDE" /\ ~fetched.aborted
  /\ OfKind(annotated, "HIDE") = {2, 4}
  /\ fetched.found = 2

(***************************************************************************)
(* AidlDocument::ResolveName.  A dotted name is the sequence of its        *)
(* identifiers: <<"p", "Foo">> is p.Foo, << >> is the empty string.  The   *)
(* parser produces names of one identifier or more.                        *)
(***************************************************************************)
MaxImports == 3      \* imports of one document

Dotted(name) == JoinStr(name, ".")

\* unresolved_name up to its first dot (all of it without a dot)
ClassName(unresolved_name) == unresolved_name[1]

\* fq_name from its last dot on: the mutant takes the first identifier
ImportedTypeName_First(fq_name) == fq_name[1]

\* fq_name after its last dot (all of it without a dot)
ImportedTypeName(fq_name) == fq_name[Len(fq_name)]

\* The loop over Imports() from import i on, canonical_name being what the
\* earlier iterations stored; the import at position i is located at i.
RECURSIVE ResolveNameFrom(_, _, _, _)
ResolveNameFrom(import_list, class_name, i, canonical_name) ==
  IF i > Len(import_list)
    THEN [has_value |-> TRUE, value |-> canonical_name, errors |-> << >>]
  ELSE IF ImportedTypeName(import_list[i]) = class_name
    THEN IF canonical_name # << >> /\ canonical_name # import_list[i]
           THEN [has_value |-> FALSE, value |-> << >>,
                 errors |-> <<Diag("ambiguous_type", i,
                                   Dotted(canonical_name) \o " vs. "
                                   \o Dotted(import_list[i]))>>]
           ELSE ResolveNameFrom(import_list, class_name, i + 1, import_list[i])
  ELSE ResolveNameFrom(import_list, class_name, i + 1, canonical_name)

\* "if not found, use unresolved_name as it is"
OrUnresolved(found, unresolved_name) ==
  IF found.has_value /\ found.value = << >>
    THEN [found EXCEPT !.value = unresolved_name]
    ELSE found

\* AidlDocument::ResolveName
AidlDocument_ResolveName(import_list, unresolved_name) ==
  OrUnresolved(ResolveNameFrom(import_list, ClassName(unresolved_name), 1, << >>),
               unresolved_name)

NoResolveName == [called |-> FALSE, name |-> << >>, has_value |-> FALSE, value |-> << >>,
                  errors |-> << >>]

\* import p.Foo; import q.Foo; import p.Bar; import Foo; import p.q.Baz;
NeededClasses == {<<"p", "Foo">>, <<"q", "Foo">>, <<"p", "Bar">>, <<"Foo">>, <<"p", "q", "Baz">>}

\* Foo, Foo.Inner, p.Foo, Bar, Baz.Inner.Most, Qux
UnresolvedDottedNames ==
  {<<"Foo">>, <<"Foo", "Inner">>, <<"p", "Foo">>, <<"Bar">>, <<"Baz", "Inner", "Most">>,
   <<"Qux">>}

AddImport ==
  /\ Len(imports) < MaxImports
  /\ \E needed_class \in NeededClasses : imports' = Append(imports, needed_class)
  /\ resolveNameResult' = NoResolveName
  /\ UNCHANGED <<kindVars, resolveVars, annotatedVars, constantVars, declVars, documentVars,
                 memberVars>>

ResolveName ==
  /\ \E unresolved_name \in UnresolvedDottedNames :
       resolveNameResult' =
         [called |-> TRUE, name |-> unresolved_name,
          has_value |-> AidlDocument_ResolveName(imports, unresolved_name).has_value,
          value |-> AidlDocument_ResolveName(imports, unresolved_name).value,
          errors |-> AidlDocument_ResolveName(imports, unresolved_name).errors]
  /\ UNCHANGED imports
  /\ UNCHANGED <<kindVars, resolveVars, annotatedVars, constantVars, declVars, documentVars,
                 memberVars>>

\* the imports whose last identifier is the first identifier of the name
Matching(import_list, name) ==
  {i \in DOMAIN import_list : import_list[i][Len(import_list[i])] = name[1]}

(***************************************************************************)
(* C15.  ResolveName compares the part of the name before its first dot    *)
(* with the last identifier of each import: without a matching import it   *)
(* returns the name unchanged; when every matching import has the same     *)
(* fully-qualified name it returns that name; when two matching imports    *)
(* differ it returns no value and emits exactly one 'Ambiguous type'       *)
(* error.                                                                  *)
(***************************************************************************)
C15_ResolveName ==
  resolveNameResult.called =>
    /\ Matching(imports, resolveNameResult.name) = {}
         => /\ resolveNameResult.has_value
            /\ resolveNameResult.value = resolveNameResult.name
            /\ resolveNameResult.errors = << >>
    /\ \A i \in Matching(imports, resolveNameResult.name) :
         (\A j \in Matching(imports, resolveNameResult.name) : imports[j] = imports[i])
           => /\ resolveNameResult.has_value
              /\ resolveNameResult.value = imports[i]
              /\ resolveNameResult.errors = << >>
    /\ (\E i, j \in Matching(imports, resolveNameResult.name) : imports[i] # imports[j])
         => /\ ~resolveNameResult.has_value
            /\ Len(resolveNameResult.errors) = 1
            /\ resolveNameResult.errors[1].id = "ambiguous_type"

\* import p.Foo; import p.Foo; import q.Foo; and the name Foo.Inner
C15_Witness ==
  /\ resolveNameResult.called /\ ~resolveNameResult.has_value
  /\ imports = << <<"p", "Foo">>, <<"p", "Foo">>, <<"q", "Foo">> >>
  /\ resolveNameResult.name = <<"Foo", "Inner">>
  /\ resolveNameResult.errors = <<Diag("ambiguous_type", 3, "p.Foo vs. q.Foo")>>

(***************************************************************************)
(* AidlDocument: the defined types of one compilation unit, in order, and  *)
(* AidlDocument::CheckValid on them.  The annotations of the defined types *)
(* carry no parameters.                                                    *)
(***************************************************************************)
MaxTypes == 2        \* defined types of one document

\* a CheckValid that returns what the last defined type returned
AidlDocument_CheckValid_LastDecides(defined_types) ==
  Outcome(defined_types = << >>
            \/ DefinedType_CheckValid(defined_types[Len(defined_types)], {}).ok,
          Every([i \in DOMAIN defined_types |->
                   DefinedType_CheckValid(defined_types[i], {})]).diags)

\* AidlDocument::CheckValid
AidlDocument_CheckValid(defined_types) ==
  UntilFailure([i \in DOMAIN defined_types |-> DefinedType_CheckValid(defined_types[i], {})])

WithFields(decl, fields) ==
  [decl EXCEPT !.fields = [i \in DOMAIN fields |-> [fields[i] EXCEPT !.loc = i]]]
WithConstantDeclarations(decl, constants) ==
  [decl EXCEPT !.constants = [i \in DOMAIN constants |-> [constants[i] EXCEPT !.loc = i]]]
WithMethods(decl, templates) ==
  [decl EXCEPT !.methods = [i \in DOMAIN templates |-> MethodAt(templates[i], i)]]

kNullableInt == AidlTypeSpecifier("int", FALSE, FALSE, << >>, Annotate(<<"nullable">>))

\* The declarations a document is made of, valid ones and ones with one
\* invalid child: a field, a constant, an annotation, an enumerator, a
\* return type, an argument type.
DocumentTypes ==
  {[kind |-> "structured_parcelable",
    decl |-> WithFields(Construct("structured_parcelable", << >>, << >>, << >>),
                        <<AidlVariableDeclaration(0, kIntType, "a", NullValue)>>)],
   [kind |-> "structured_parcelable",
    decl |-> WithFields(Construct("structured_parcelable", << >>, << >>, << >>),
                        <<AidlVariableDeclaration(0, kStringType, "b", Malformed)>>)],
   [kind |-> "structured_parcelable",
    decl |-> WithConstantDeclarations(
               Construct("structured_parcelable", << >>, << >>, << >>),
               <<AidlConstantDeclaration(0, kBooleanType, "Y", BooleanValue(TRUE))>>)],
   [kind |-> "parcelable", decl |-> Construct("parcelable", << >>, << >>, << >>)],
   [kind |-> "parcelable",
    decl |-> Construct("parcelable", Annotate(<<"JavaPassthrough">>), << >>, << >>)],
   [kind |-> "union",
    decl |-> WithFields(Construct("union", << >>, << >>, << >>),
                        <<AidlVariableDeclaration(0, kIntType, "a", NullValue)>>)],
   [kind |-> "union",
    decl |-> WithFields(Construct("union", << >>, << >>, << >>),
                        <<AidlVariableDeclaration(0, kNullableInt, "n", NullValue)>>)],
   [kind |-> "enum",
    decl |-> Construct("enum", << >>, << >>, <<AidlEnumerator(1, "A", NullValue)>>)],
   [kind |-> "enum",
    decl |-> Construct("enum", << >>, << >>,
                       <<AidlEnumerator(1, "A", Integral(127)),
                         AidlEnumerator(2, "B", NullValue)>>)],
   [kind |-> "interface",
    decl |-> WithMethods(Construct("interface", << >>, << >>, << >>),
                         << <<FALSE, PlainType("void"), "foo", <<Arg("", kIntType, "x")>> >> >>)],
   [kind |-> "interface",
    decl |-> WithMethods(Construct("interface", << >>, << >>, << >>),
                         << <<FALSE, kNullableInt, "bar", << >> >> >>)],
   [kind |-> "interface",
    decl |-> WithMethods(Construct("interface", << >>, << >>, << >>),
                         << <<FALSE, PlainType("void"), "baz",
                              <<Arg("", kNullableInt, "x")>> >> >>)],
   [kind |-> "interface",
    decl |-> WithConstantDeclarations(
               Construct("interface", << >>, << >>, << >>),
               <<AidlConstantDeclaration(0, kIntType, "Z", Malformed)>>)]}

\* the defined type at position i of the document is located at 100 * i
AddToDocument ==
  /\ documentResult.calls = 0
  /\ Len(document) < MaxTypes
  /\ \E t \in DocumentTypes :
       document' = Append(document, [t EXCEPT !.decl.loc = 100 * (Len(document) + 1)])
  /\ UNCHANGED documentResult
  /\ UNCHANGED <<kindVars, resolveVars, annotatedVars, importVars, constantVars, declVars,
                 memberVars>>

CheckValidDocument ==
  /\ documentResult.calls < MaxChecks
  /\ documentResult' = Recorded(documentResult, AidlDocument_CheckValid(document))
  /\ UNCHANGED document
  /\ UNCHANGED <<kindVars, resolveVars, annotatedVars, importVars, constantVars, declVars,
                 memberVars>>

\* the CheckValid of every child a defined type owns returns true
ChildrenValid(t) ==
  /\ \A i \in DOMAIN t.decl.annotations : AidlAnnotation_CheckValid(t.decl.annotations[i], {}).ok
  /\ \A i \in DOMAIN t.decl.fields : AidlVariableDeclaration_CheckValid(t.decl.fields[i], {}).ok
  /\ \A i \in DOMAIN t.decl.constants : AidlConstantDeclaration_CheckValid(t.decl.constants[i]).ok
  /\ t.kind = "enum" =>
       \A i \in DOMAIN t.decl.enumerators :
         AidlEnumerator_CheckValid(t.decl.enumerators[i], t.decl.backing_type,
                                   t.decl.enumerators).ok
  /\ t.kind = "interface" =>
       \A i \in DOMAIN t.decl.methods :
         /\ AidlTypeSpecifier_CheckValid(t.decl.methods[i].type, t.decl.methods[i].loc, {}).ok
         /\ \A j \in DOMAIN t.decl.methods[i].arguments :
              AidlTypeSpecifier_CheckValid(t.decl.methods[i].arguments[j].type,
                                           t.decl.methods[i].arguments[j].loc, {}).ok

(***************************************************************************)
(* C16.  Validity aggregates as AND upward: a document's CheckValid        *)
(* returns true only when the CheckValid of every defined type in it       *)
(* returns true, and the CheckValid of a defined type of any kind returns  *)
(* true only when that of every annotation, field, constant, enumerator,   *)
(* method return type and argument type it owns returns true.              *)
(***************************************************************************)
C16_AndUpward ==
  /\ (documentResult.calls > 0 /\ documentResult.ok)
       => \A i \in DOMAIN document : DefinedType_CheckValid(document[i], {}).ok
  /\ \A i \in DOMAIN document :
       DefinedType_CheckValid(document[i], {}).ok => ChildrenValid(document[i])

\* a valid defined type followed by one with an invalid child
C16_Witness ==
  /\ documentResult.calls > 0 /\ ~documentResult.ok
  /\ Len(document) = 2
  /\ DefinedType_CheckValid(document[1], {}).ok /\ ChildrenValid(document[1])
  /\ ~DefinedType_CheckValid(document[2], {}).ok /\ ~ChildrenValid(document[2])

\* the diagnostics CheckValid emits for the defined type at position i
DiagsOfType(i) == DefinedType_CheckValid(document[i], {}).diags

(***************************************************************************)
(* C20.  One CheckValid call on a document validates every defined type:   *)
(* the diagnostics of every defined type, those after an invalid one       *)
(* included, are emitted by the call.                                      *)
(***************************************************************************)
C20_EveryTypeValidated ==
  documentResult.calls > 0 =>
    \A i \in DOMAIN document : Range(DiagsOfType(i)) \subseteq Range(documentResult.diags)

(***************************************************************************)
(* Specification of one constant declaration: the parser builds it from a  *)
(* type, a name and a value, the compiler calls CheckValid on it.          *)
(***************************************************************************)
NoConstant == AidlConstantDeclaration(0, NoType, "", NullValue)

ConstantTypes ==
  {PlainType(n) : n \in {"String", "byte", "int", "long", "boolean", "char", "MyEnum"}}
  \cup {AidlTypeSpecifier("int", TRUE, FALSE, << >>, << >>),
        AidlTypeSpecifier("String", TRUE, FALSE, << >>, << >>),
        AidlTypeSpecifier("List", FALSE, TRUE, <<kStringType>>, << >>),
        AidlTypeSpecifier("String", FALSE, FALSE, << >>, Annotate(<<"nullable">>)),
        AidlTypeSpecifier("String", FALSE, FALSE, << >>, Annotate(<<"utf8InCpp">>)),
        AidlTypeSpecifier("int", FALSE, FALSE, << >>, Annotate(<<"nullable">>)),
        AidlTypeSpecifier("long", FALSE, FALSE, << >>, Annotate(<<"VintfStability">>))}

ConstantValues ==
  {Integral(1), StringValue("x"), BooleanValue(TRUE), Malformed, ArrayValue,
   AidlConstantReference("", "FOO"),
   AidlBinaryConstExpression(Integral(1), "+", Integral(1)),
   AidlBinaryConstExpression(Integral(1), "+", Malformed)}

NewConstantDeclaration ==
  /\ constant = NoConstant
  /\ \E type \in ConstantTypes, value \in ConstantValues :
       constant' = AidlConstantDeclaration(1, type, "FOO", value)
  /\ UNCHANGED constantResult
  /\ UNCHANGED <<kindVars, resolveVars, annotatedVars, importVars, declVars, documentVars,
                 memberVars>>

CheckValidConstant ==
  /\ constant # NoConstant
  /\ constantResult.calls < MaxChecks
  /\ constantResult' = Recorded(constantResult, AidlConstantDeclaration_CheckValid(constant))
  /\ UNCHANGED constant
  /\ UNCHANGED <<kindVars, resolveVars, annotatedVars, importVars, declVars, documentVars,
                 memberVars>>

(***************************************************************************)
(* C18.  AidlConstantDeclaration::CheckValid returns true exactly when the *)
(* type specifier of the constant passes its CheckValid, the value passes  *)
(* its CheckValid and the Signature() of the type is String, byte, int or  *)
(* long; an array or a generic type is rejected.                           *)
(***************************************************************************)
C18_ConstantValid ==
  constantResult.calls > 0 =>
    /\ constantResult.ok =
         (/\ AidlTypeSpecifier_CheckValid(constant.type, constant.loc, {}).ok
          /\ ConstantCheckValid(constant.value, << >>)
          /\ TypeSignature(constant.type) \in {"String", "byte", "int", "long"})
    /\ (IsArray(constant.type) \/ IsGeneric(constant.type)) => ~constantResult.ok

\* const List<String> FOO = "x": type and value validate, the signature is
\* List<String>
C18_Witness ==
  /\ constantResult.calls > 0 /\ ~constantResult.ok
  /\ constant.type.name = "List" /\ constant.value = StringValue("x")
  /\ AidlTypeSpecifier_CheckValid(constant.type, constant.loc, {}).ok
  /\ constantResult.diags = <<Diag("constant_type_unsupported", 1, "List<String>")>>

(***************************************************************************)
(* Specifications.  Every tree starts out empty (nothing parsed yet).      *)
(***************************************************************************)
(***************************************************************************)
(* Specification of one variable declaration (a field or an argument): the *)
(* parser builds it with or without a default value, the compiler calls    *)
(* AidlVariableDeclaration::CheckValid on it.                              *)
(***************************************************************************)
NoVariable == AidlVariableDeclaration(0, NoType, "", NullValue)

VariableTypes ==
  {PlainType(n) : n \in {"int", "byte", "long", "boolean", "String", "void", "MyEnum"}}
  \cup {AidlTypeSpecifier("int", TRUE, FALSE, << >>, << >>),
        AidlTypeSpecifier("int", FALSE, FALSE, << >>, Annotate(<<"nullable">>)),
        AidlTypeSpecifier("String", FALSE, FALSE, << >>, Annotate(<<"nullable">>)),
        AidlTypeSpecifier("List", FALSE, TRUE, <<kIntType>>, << >>)}

\* no default, or one the user wrote
VariableDefaults ==
  {NullValue, Integral(1), Integral(300), StringValue("x"), BooleanValue(TRUE), ArrayValue,
   Malformed, AidlConstantReference("MyEnum", "FOO"),
   AidlBinaryConstExpression(Integral(1), "+", Malformed)}

NewVariableDeclaration ==
  /\ variable = NoVariable
  /\ \E type \in VariableTypes, default_value \in VariableDefaults :
       variable' = AidlVariableDeclaration(1, type, "v", default_value)
  /\ UNCHANGED variableResult
  /\ UNCHANGED <<kindVars, resolveVars, annotatedVars, importVars, constantVars, declVars,
                 documentVars>>

CheckValidVariable ==
  /\ variable # NoVariable
  /\ variableResult.calls < MaxChecks
  /\ ~variableResult.died
  /\ \E wild \in Indeterminate(FinderKeys(variable.type.annotations)) :
       variableResult' =
         Recorded(variableResult, AidlVariableDeclaration_CheckValid(variable, wild))
  /\ UNCHANGED variable
  /\ UNCHANGED <<kindVars, resolveVars, annotatedVars, importVars, constantVars, declVars,
                 documentVars>>

(***************************************************************************)
(* C23.  AidlVariableDeclaration::CheckValid returns true exactly when the *)
(* type specifier passes its CheckValid, the type is not void and, when    *)
(* there is a default value, that value passes its CheckValid and renders  *)
(* to a non-empty string for the declared type; a declaration written      *)
(* without a default value is valid exactly when its type validates and is *)
(* not void.                                                               *)
(***************************************************************************)
C23_VariableValid ==
  variableResult.calls > 0 =>
    /\ variableResult.ok =
         (/\ AidlTypeSpecifier_CheckValid(variable.type, variable.loc, {}).ok
          /\ variable.type.name # "void"
          /\ variable.default_value # NullValue
               => /\ ConstantCheckValid(variable.default_value, << >>)
                  /\ ConstantValueString(variable.default_value, variable.type, << >>) # "")
    /\ ~variable.default_user_specified
         => variableResult.ok =
              (/\ AidlTypeSpecifier_CheckValid(variable.type, variable.loc, {}).ok
               /\ variable.type.name # "void")

\* byte v = 300: the type and the value validate, the value does not fit the
\* type and renders empty
C23_Witness ==
  /\ variableResult.calls > 0 /\ ~variableResult.ok
  /\ variable.type = PlainType("byte")
  /\ variable.default_value = Integral(300)
  /\ AidlTypeSpecifier_CheckValid(variable.type, variable.loc, {}).ok
  /\ ConstantCheckValid(variable.default_value, << >>)

Init ==
  /\ annotation = NoAnnotation
  /\ annotationResult = NoResult
  /\ typeSpec = NoType
  /\ typeResult = NoResult
  /\ enumDecl = NoEnum
  /\ enumAutofill = NoResult
  /\ enumResult = NoResult
  /\ unionDecl = NoUnion
  /\ unionResult = NoResult
  /\ iface = NoInterface
  /\ ifaceResult = NoResult
  /\ typenames = EmptyTypenames
  /\ resolving = NoSpecifier
  /\ resolveResult = NoResolve
  /\ annotated = NoNode
  /\ annotatedResult = NoResult
  /\ imports = << >>
  /\ resolveNameResult = NoResolveName
  /\ constant = NoConstant
  /\ constantResult = NoResult
  /\ definedType = NoDefinedType
  /\ definedTypeResult = NoResult
  /\ document = << >>
  /\ documentResult = NoResult
  /\ fetched = NoFetch
  /\ variable = NoVariable
  /\ variableResult = NoResult

NextAnnotation == ParseAnnotation \/ CheckValidAnnotation
SpecAnnotation == Init /\ [][NextAnnotation]_vars

NextType == NewTypeSpecifier \/ AddTypeParameter \/ CheckValidType
SpecType == Init /\ [][NextType]_vars

NextEnum == NewEnumDeclaration \/ AutofillEnum \/ CheckValidEnum
SpecEnum == Init /\ [][NextEnum]_vars

NextUnion == NewUnionDecl \/ AddUnionField \/ CheckValidUnion
SpecUnion == Init /\ [][NextUnion]_vars

NextInterface == NewInterface \/ AddMethod \/ CheckValidInterface
SpecInterface == Init /\ [][NextInterface]_vars

NextResolve == AddDefinedType \/ NewTypeToResolve \/ Resolve
SpecResolve == Init /\ [][NextResolve]_vars

NextDefinedType ==
  NewDefinedType \/ AddField \/ AddConstant \/ AddDeclaredMethod \/ CheckValidDefinedType
SpecDefinedType == Init /\ [][NextDefinedType]_vars

NextAnnotated == NewNode \/ Attach \/ CheckValidAnnotated \/ Fetch
SpecAnnotated == Init /\ [][NextAnnotated]_vars

NextImports == AddImport \/ ResolveName
SpecImports == Init /\ [][NextImports]_vars

NextDocument == AddToDocument \/ CheckValidDocument
SpecDocument == Init /\ [][NextDocument]_vars

NextConstant == NewConstantDeclaration \/ CheckValidConstant
SpecConstant == Init /\ [][NextConstant]_vars

NextVariable == NewVariableDeclaration \/ CheckValidVariable
SpecVariable == Init /\ [][NextVariable]_vars

====
